---- MODULE Spec2Model ----
(***************************************************************************)
(* Model of forgecraft-mcp: the instruction-file merge engine and the      *)
(* safe file writers (shared/filesystem), the MCP server discovery         *)
(* service (registry/mcp-discovery), the configure_mcp handler, the        *)
(* forgecraft router, the generate, scaffold and get_reference handlers,   *)
(* and the placeholder substitution of the renderer.                       *)
(*                                                                         *)
(* A text is a sequence of one-character strings.  A line is the same.     *)
(* String.split, Array.join, String.trim and String.startsWith are         *)
(* modelled by what they do on those sequences.                            *)
(***************************************************************************)
EXTENDS Integers, Sequences, FiniteSets, TLC

VARIABLES
  existing,    \* mergeInstructionFiles: argument `existing`
  generated,   \* mergeInstructionFiles: argument `generated`
  merged,      \* mergeInstructionFiles: the returned string
  pc,          \* position of the merge call: "start" | "done" | "idle"
  fileExists,  \* existsSync(filePath) of the one file the writers work on
  fileContent, \* its content (<<>> while it does not exist)
  lastCall,    \* the last writer call: its arguments, its result and the
               \* file as it was before the call
  calls,       \* number of writer calls made
  dTags,          \* discoverServers: argument `tags`
  dTemplates,     \* loadAllTemplatesWithExtras(): tag -> mcpServers.servers
  dOptions,       \* discoverServers: `options` and FORGECRAFT_MCP_REGISTRY_URL
  dpc,            \* position of the discoverServers call
  timerArmed,     \* the setTimeout of fetchRemoteServers is pending
  aborted,        \* controller.signal.aborted
  fetchCalled,    \* fetch() has been called
  localServers,   \* loadLocalServers(tags)
  remotePayload,  \* data.servers as received (<<>> if none was)
  remoteOutcome,  \* how the remote request ended
  result,         \* the list discoverServers resolved with
  cArgs,       \* configureMcpHandler: max_servers, custom_servers,
               \* auto_approve_tools
  cRecs,       \* what discovery.discoverServers resolved with
  cFile0,      \* .claude/settings.json before the call
  cFile,       \* .claude/settings.json
  cKept,       \* `recommendations` after the max_servers step
  cServers,    \* the `servers` map of the call
  cRules,      \* `permissionRules` of the call
  cpc,         \* position of the configure_mcp call
  rArgs,       \* forgecraftHandler: the arguments of the call
  rOut,        \* forgecraftHandler: how the call ended
  pCall,       \* generate / scaffold / get_reference: handler and arguments
  pTags,       \* the `tags` the handler passes to composeTemplates
  ppc,         \* position of that call
  disk0,       \* the project directory before the call
  disk,        \* the project directory
  filesCreated, \* scaffold: `filesCreated`
  filesSkipped, \* scaffold: `filesSkipped`
  pWritten,    \* paths the call wrote or created
  tTemplate,   \* renderTemplate: the template
  tContext,    \* renderTemplate: the render context
  tOut,        \* renderTemplate: the returned text
  tpc,         \* position of the renderTemplate call
  lProject,    \* detectLanguage: what the project directory holds
  lOut         \* detectLanguage: the returned language

mergeVars == <<existing, generated, merged, pc>>
fsVars == <<fileExists, fileContent, lastCall, calls>>
discVars == <<dTags, dTemplates, dOptions, dpc, timerArmed, aborted,
              fetchCalled, localServers, remotePayload, remoteOutcome, result>>

cfgVars == <<cArgs, cRecs, cFile0, cFile, cKept, cServers, cRules, cpc>>
routerVars == <<rArgs, rOut>>
projVars == <<pCall, pTags, ppc, disk0, disk, filesCreated, filesSkipped,
              pWritten>>
renderVars == <<tTemplate, tContext, tOut, tpc>>
langVars == <<lProject, lOut>>
toolVars == <<cfgVars, routerVars, projVars, renderVars, langVars>>

vars == <<mergeVars, fsVars, discVars, toolVars>>

\* ------------------------------------------------------------------------
\* Bounds
\* ------------------------------------------------------------------------
\* lines of the existing text
MaxExistingLines == 3
\* lines of the generated text
MaxGeneratedLines == 2
\* lines of the file before the first writer call
MaxFileLines == 2
\* lines of the content passed to a writer
MaxContentLines == 1
\* writer calls in one behaviour
MaxCalls == 1
\* entries of the remote registry's servers array
MaxRemoteEntries == 2

\* ------------------------------------------------------------------------
\* JavaScript string primitives
\* ------------------------------------------------------------------------
NL == "\n"
SP == " "
WhiteSpace == {" ", "\t", "\r", "\n"}

\* s.startsWith(p)
StartsWith(s, p) == Len(s) >= Len(p) /\ SubSeq(s, 1, Len(p)) = p

RECURSIVE TrimStart(_)
TrimStart(s) ==
  IF s # <<>> /\ Head(s) \in WhiteSpace THEN TrimStart(Tail(s)) ELSE s

RECURSIVE TrimEnd(_)
TrimEnd(s) ==
  IF s # <<>> /\ s[Len(s)] \in WhiteSpace
    THEN TrimEnd(SubSeq(s, 1, Len(s) - 1))
    ELSE s

\* s.trim()
Trim(s) == TrimEnd(TrimStart(s))

\* s.split("\n"): always at least one element; "" splits to [""]
RECURSIVE SplitFrom(_, _, _)
SplitFrom(s, i, cur) ==
  IF i > Len(s) THEN <<cur>>
  ELSE IF s[i] = NL THEN <<cur>> \o SplitFrom(s, i + 1, <<>>)
  ELSE SplitFrom(s, i + 1, Append(cur, s[i]))

SplitLines(s) == SplitFrom(s, 1, <<>>)

\* parts.join(sep): the parts with sep between consecutive parts
RECURSIVE Join(_, _)
Join(parts, sep) ==
  IF parts = <<>> THEN <<>>
  ELSE IF Len(parts) = 1 THEN parts[1]
  ELSE parts[1] \o sep \o Join(Tail(parts), sep)

\* ------------------------------------------------------------------------
\* mergeInstructionFiles
\* ------------------------------------------------------------------------
H2 == <<"#", "#", " ">>
H3 == <<"#", "#", "#", " ">>

\* l.startsWith("## ") || l.startsWith("### ")
IsHeaderLine(l) == StartsWith(l, H2) \/ StartsWith(l, H3)

\* the comment text between the generated part and the custom sections,
\* carried as one character that is neither white space nor '#'
SeparatorComment == <<"<!-- Custom Sections (preserved from previous file) -->">>

Separator == <<NL, NL>> \o SeparatorComment \o <<NL, NL>>

\* generatedHeaders with the .map(trim) left out
generatedHeaders_NoTrim(generatedLines) ==
  { generatedLines[i] :
      i \in { j \in 1..Len(generatedLines) : IsHeaderLine(generatedLines[j]) } }

\* new Set(generatedLines.filter(isHeader).map(trim))
generatedHeaders(generatedLines) ==
  { Trim(generatedLines[i]) :
      i \in { j \in 1..Len(generatedLines) : IsHeaderLine(generatedLines[j]) } }

\* the loop state before the first line
MergeLoopInit ==
  [customSections |-> <<>>, inCustomSection |-> FALSE, currentSection |-> <<>>]

\* MergeLoopStep looking the raw line up instead of line.trim()
MergeLoopStep_RawLookup(st, line, headers) ==
  IF IsHeaderLine(line)
    THEN LET flushed ==
               IF st.inCustomSection /\ Len(st.currentSection) > 0
                 THEN Append(st.customSections, Join(st.currentSection, <<NL>>))
                 ELSE st.customSections
             custom == line \notin headers
         IN [customSections |-> flushed,
             inCustomSection |-> custom,
             currentSection |-> IF custom THEN <<line>> ELSE <<>>]
    ELSE IF st.inCustomSection
      THEN [st EXCEPT !.currentSection = Append(@, line)]
      ELSE st

\* one iteration of `for (const line of existingLines)`
MergeLoopStep(st, line, headers) ==
  IF IsHeaderLine(line)
    THEN LET flushed ==
               IF st.inCustomSection /\ Len(st.currentSection) > 0
                 THEN Append(st.customSections, Join(st.currentSection, <<NL>>))
                 ELSE st.customSections
             custom == Trim(line) \notin headers
         IN [customSections |-> flushed,
             inCustomSection |-> custom,
             currentSection |-> IF custom THEN <<line>> ELSE <<>>]
    ELSE IF st.inCustomSection
      THEN [st EXCEPT !.currentSection = Append(@, line)]
      ELSE st

RECURSIVE MergeLoop(_, _, _, _)
MergeLoop(st, lines, i, headers) ==
  IF i > Len(lines) THEN st
  ELSE MergeLoop(MergeLoopStep(st, lines[i], headers), lines, i + 1, headers)

\* collectCustomSections without the flush after the loop
collectCustomSections_NoTrailingFlush(existingLines, headers) ==
  MergeLoop(MergeLoopInit, existingLines, 1, headers).customSections

\* the custom sections after the loop and the trailing flush
collectCustomSections(existingLines, headers) ==
  LET st == MergeLoop(MergeLoopInit, existingLines, 1, headers)
  IN IF st.inCustomSection /\ Len(st.currentSection) > 0
       THEN Append(st.customSections, Join(st.currentSection, <<NL>>))
       ELSE st.customSections

\* mergeInstructionFiles joining the custom sections with one line break
mergeInstructionFiles_NarrowJoin(e, g) ==
  LET customSections ==
        collectCustomSections(SplitLines(e), generatedHeaders(SplitLines(g)))
  IN IF Len(customSections) > 0
       THEN g \o Separator \o Join(customSections, <<NL>>)
       ELSE g

\* const existingLines = existing.split("\n") ... return generated
mergeInstructionFiles(e, g) ==
  LET customSections ==
        collectCustomSections(SplitLines(e), generatedHeaders(SplitLines(g)))
  IN IF Len(customSections) > 0
       THEN g \o Separator \o Join(customSections, <<NL, NL>>)
       ELSE g

\* ------------------------------------------------------------------------
\* Inputs of the merge
\* ------------------------------------------------------------------------
\* "## a", "## a " (trailing blank), "### b", "x", ""
LinePool ==
  { <<"#", "#", " ", "a">>,
    <<"#", "#", " ", "a", " ">>,
    <<"#", "#", "#", " ", "b">>,
    <<"x">>,
    <<>> }

TextsUpTo(n) ==
  { Join(ls, <<NL>>) : ls \in UNION { [1..k -> LinePool] : k \in 1..n } }

ExistingTexts == TextsUpTo(MaxExistingLines)
GeneratedTexts == TextsUpTo(MaxGeneratedLines)
FileTexts == TextsUpTo(MaxFileLines)
ContentTexts == TextsUpTo(MaxContentLines)

\* ------------------------------------------------------------------------
\* The file writers.  Each returns the file after the call and the result.
\* ------------------------------------------------------------------------
\* writeFileIfMissing reporting the file's existence after the write
writeFileIfMissing_ResultAfterWrite(exists, old, content, force) ==
  IF exists /\ ~force
    THEN [exists |-> exists, content |-> old, result |-> "skipped"]
    ELSE [exists |-> TRUE, content |-> content, result |-> "overwritten"]

writeFileIfMissing(exists, old, content, force) ==
  IF exists /\ ~force
    THEN [exists |-> exists, content |-> old, result |-> "skipped"]
    ELSE [exists |-> TRUE, content |-> content,
          result |-> IF exists THEN "overwritten" ELSE "created"]

\* writeInstructionFileWithMerge writing the new content over the file
writeInstructionFileWithMerge_Overwrite(exists, old, content) ==
  [exists |-> TRUE, content |-> content, result |-> "void"]

writeInstructionFileWithMerge(exists, old, content) ==
  IF exists
    THEN [exists |-> TRUE, content |-> mergeInstructionFiles(old, content),
          result |-> "void"]
    ELSE [exists |-> TRUE, content |-> content, result |-> "void"]

\* ------------------------------------------------------------------------
\* Sections of a text, read off the text itself
\* ------------------------------------------------------------------------
HeadingIdx(ls) == { i \in 1..Len(ls) : IsHeaderLine(ls[i]) }

\* the trimmed '## '/'### ' heading lines of a text
HeadingSet(t) ==
  LET ls == SplitLines(t) IN { Trim(ls[i]) : i \in HeadingIdx(ls) }

\* the heading lines of e whose trimmed text is no heading of g
CustomIdx(e, g) ==
  LET ls == SplitLines(e)
  IN { i \in HeadingIdx(ls) : Trim(ls[i]) \notin HeadingSet(g) }

\* last line of the section that starts at heading i: the line before the
\* next '## ' or '### ' heading, or the last line of the text
FlatEnd(ls, i) ==
  LET later == { j \in HeadingIdx(ls) : j > i }
  IN IF later = {} THEN Len(ls)
     ELSE (CHOOSE j \in later : \A k \in later : j <= k) - 1

FlatSection(ls, i) == SubSeq(ls, i, FlatEnd(ls, i))

\* last line of the span of a '## ' heading i that runs until the next
\* heading of equal-or-higher level ('## '), '### ' headings included
LevelEnd(ls, i) ==
  LET later == { j \in HeadingIdx(ls) : j > i /\ StartsWith(ls[j], H2) }
  IN IF later = {} THEN Len(ls)
     ELSE (CHOOSE j \in later : \A k \in later : j <= k) - 1

LevelSpan(ls, i) == SubSeq(ls, i, LevelEnd(ls, i))

\* the lines `sec` stand together in `out`, after its first n lines
OccursAfter(sec, out, n) ==
  \E p \in n..(Len(out) - Len(sec)) : SubSeq(out, p + 1, p + Len(sec)) = sec

\* the lines `sec` from its i-th on stand in `out` after its j-th line, in
\* their order, other lines possibly between them
RECURSIVE InOrderFrom(_, _, _, _)
InOrderFrom(sec, i, out, j) ==
  IF i > Len(sec) THEN TRUE
  ELSE IF j >= Len(out) THEN FALSE
  ELSE IF out[j + 1] = sec[i] THEN InOrderFrom(sec, i + 1, out, j + 1)
  ELSE InOrderFrom(sec, i, out, j + 1)

\* the elements of a finite set of integers, ascending
RECURSIVE Ascending(_)
Ascending(S) ==
  IF S = {} THEN <<>>
  ELSE LET m == CHOOSE x \in S : \A y \in S : x <= y
       IN <<m>> \o Ascending(S \ {m})

\* the custom sections of e against g, each as text, in the order of e
CustomSectionTexts(e, g) ==
  LET ls == SplitLines(e)
      idx == Ascending(CustomIdx(e, g))
  IN [k \in 1..Len(idx) |-> Join(FlatSection(ls, idx[k]), <<NL>>)]

\* every custom section of e stands in out with its heading and body lines,
\* after the whole of g, and out begins with g
CustomSectionsKept(e, g, out) ==
  LET ls == SplitLines(e)
  IN /\ StartsWith(out, g)
     /\ \A i \in CustomIdx(e, g) :
          OccursAfter(FlatSection(ls, i), SplitLines(out), Len(SplitLines(g)))

\* ------------------------------------------------------------------------
\* Specification of one merge call
\* ------------------------------------------------------------------------
NoCall ==
  [op |-> "none", content |-> <<>>, force |-> FALSE, result |-> "none",
   prevExists |-> FALSE, prevContent |-> <<>>]

FsIdle ==
  /\ fileExists = FALSE
  /\ fileContent = <<>>
  /\ lastCall = NoCall
  /\ calls = 0

MergeIdle ==
  /\ existing = <<>>
  /\ generated = <<>>
  /\ merged = <<>>
  /\ pc = "idle"

DiscIdle ==
  /\ dTags = <<>>
  /\ dTemplates = <<>>
  /\ dOptions = [includeRemote |-> FALSE, remoteRegistryUrl |-> "undefined",
                  envUrl |-> ""]
  /\ dpc = "idle"
  /\ timerArmed = FALSE
  /\ aborted = FALSE
  /\ fetchCalled = FALSE
  /\ localServers = <<>>
  /\ remotePayload = <<>>
  /\ remoteOutcome = "none"
  /\ result = <<>>

\* an empty JSON object of the settings file
EmptyJson == [top |-> <<>>, perms |-> <<>>, allow |-> <<>>, servers |-> <<>>]

AbsentFile == [kind |-> "absent", json |-> EmptyJson]

CfgIdle ==
  /\ cArgs = [hasMax |-> FALSE, maxServers |-> 0, customServers |-> <<>>,
              autoApprove |-> FALSE]
  /\ cRecs = <<>>
  /\ cFile0 = AbsentFile
  /\ cFile = AbsentFile
  /\ cKept = <<>>
  /\ cServers = <<>>
  /\ cRules = <<>>
  /\ cpc = "idle"

\* forgecraftHandler has not run
NoOutcome == [kind |-> "none", handler |-> "none", text |-> ""]

RouterIdle ==
  /\ rArgs = [action |-> "list", tags |-> "undefined",
              project_dir |-> "undefined", name |-> "undefined",
              resource |-> "undefined"]
  /\ rOut = NoOutcome

ProjIdle ==
  /\ pCall = [handler |-> "none", tags |-> <<>>, projectDir |-> FALSE,
              dryRun |-> FALSE, force |-> FALSE, merge |-> FALSE,
              targets |-> <<>>]
  /\ pTags = <<>>
  /\ ppc = "idle"
  /\ disk0 = <<>>
  /\ disk = <<>>
  /\ filesCreated = <<>>
  /\ filesSkipped = <<>>
  /\ pWritten = {}

RenderIdle ==
  /\ tTemplate = <<>>
  /\ tContext = <<>>
  /\ tOut = <<>>
  /\ tpc = "idle"

LangIdle ==
  /\ lProject = <<>>
  /\ lOut = "none"

ToolIdle == CfgIdle /\ RouterIdle /\ ProjIdle /\ RenderIdle /\ LangIdle

MergeInit ==
  /\ existing \in ExistingTexts
  /\ generated \in GeneratedTexts
  /\ merged = <<>>
  /\ pc = "start"
  /\ FsIdle
  /\ DiscIdle
  /\ ToolIdle

Merge ==
  /\ pc = "start"
  /\ merged' = mergeInstructionFiles(existing, generated)
  /\ pc' = "done"
  /\ UNCHANGED <<existing, generated, fsVars, discVars, toolVars>>

MergeNext == Merge

MergeSpec == MergeInit /\ [][MergeNext]_vars

\* ------------------------------------------------------------------------
\* Specification of the writers working on one file
\* ------------------------------------------------------------------------
FsInit ==
  /\ fileExists \in BOOLEAN
  /\ fileContent \in (IF fileExists THEN FileTexts ELSE {<<>>})
  /\ lastCall = NoCall
  /\ calls = 0
  /\ MergeIdle
  /\ DiscIdle
  /\ ToolIdle

Written(op, content, force, r) ==
  /\ fileExists' = r.exists
  /\ fileContent' = r.content
  /\ lastCall' = [op |-> op, content |-> content, force |-> force,
                  result |-> r.result,
                  prevExists |-> fileExists, prevContent |-> fileContent]
  /\ calls' = calls + 1
  /\ UNCHANGED <<mergeVars, discVars, toolVars>>

WriteFileIfMissing ==
  /\ calls < MaxCalls
  /\ \E content \in ContentTexts, force \in BOOLEAN :
       Written("writeFileIfMissing", content, force,
               writeFileIfMissing(fileExists, fileContent, content, force))

WriteInstructionFileWithMerge ==
  /\ calls < MaxCalls
  /\ \E content \in ContentTexts :
       Written("writeInstructionFileWithMerge", content, FALSE,
               writeInstructionFileWithMerge(fileExists, fileContent, content))

FsNext == WriteFileIfMissing \/ WriteInstructionFileWithMerge

FsSpec == FsInit /\ [][FsNext]_vars

\* ------------------------------------------------------------------------
\* Specification of repeated merged writes of one instruction file
\* ------------------------------------------------------------------------
\* writeInstructionFileWithMerge calls in a row
MaxMergedWrites == 2

\* no file, or a file: a section with a body, a heading that ends in a blank
\* before a sub-section, text before the first heading, a sub-section before
\* a section, no heading at all
RewriteInit ==
  /\ \E file \in { <<>>,
                    <<"#", "#", " ", "a", NL, "x">>,
                    <<"#", "#", " ", "a", " ", NL, "#", "#", "#", " ", "b">>,
                    <<"x", NL, "#", "#", "#", " ", "b", NL, NL,
                      "#", "#", " ", "a">>,
                    <<"#", "#", "#", " ", "b", NL, "x", NL, "#", "#", " ", "a">>,
                    <<"x">> } :
       /\ fileExists = (file # <<>>)
       /\ fileContent = file
  /\ lastCall = NoCall
  /\ calls = 0
  /\ MergeIdle
  /\ DiscIdle
  /\ ToolIdle

\* the next regeneration of the file
RewriteInstructionFile ==
  /\ calls < MaxMergedWrites
  /\ \E content \in ContentTexts :
       Written("writeInstructionFileWithMerge", content, FALSE,
               writeInstructionFileWithMerge(fileExists, fileContent, content))

RewriteSpec == RewriteInit /\ [][RewriteInstructionFile]_vars

\* ------------------------------------------------------------------------
\* MCP server discovery (DefaultMcpDiscoveryService)
\* ------------------------------------------------------------------------
\* An entry of a template file or of the remote registry.  hasName and
\* hasTags are FALSE when the JSON object lacks the property.
Entry(name, hasName, tags, hasTags, command) ==
  [name |-> name, hasName |-> hasName, tags |-> tags, hasTags |-> hasTags,
   command |-> command]

LocalAlpha == Entry("alpha", TRUE, <<"UNIVERSAL">>, TRUE, "local")
LocalBeta  == Entry("beta", TRUE, <<"UNIVERSAL", "API">>, TRUE, "local")
LocalGamma == Entry("gamma", TRUE, <<"API">>, TRUE, "local")

\* the mcp-servers.yaml lists per tag (a tag without the file has <<>>)
TemplateChoices ==
  { [t \in {"UNIVERSAL", "API"} |->
       IF t = "UNIVERSAL" THEN <<LocalAlpha, LocalBeta>>
                          ELSE <<LocalBeta, LocalGamma>>],
    [t \in {"UNIVERSAL", "API"} |->
       IF t = "UNIVERSAL" THEN <<>> ELSE <<LocalGamma>>] }

TagLists ==
  { <<"UNIVERSAL">>, <<"API">>, <<"UNIVERSAL", "API">>, <<"API", "UNIVERSAL">> }

RemoteAlpha  == Entry("alpha", TRUE, <<"UNIVERSAL">>, TRUE, "remote")
RemoteDelta  == Entry("delta", TRUE, <<"API">>, TRUE, "remote")
RemoteNoTags == Entry("epsilon", TRUE, <<>>, FALSE, "remote")
RemoteNoName == Entry("undefined", FALSE, <<"UNIVERSAL">>, TRUE, "remote")

RemoteEntryPool == { RemoteAlpha, RemoteDelta, RemoteNoTags, RemoteNoName }

RemotePayloads ==
  UNION { [1..k -> RemoteEntryPool] : k \in 0..MaxRemoteEntries }

\* entryToRecommendation(entry, source)
entryToRecommendation(entry, source) ==
  [name |-> entry.name, hasName |-> entry.hasName, command |-> entry.command,
   relevantTags |-> entry.tags, source |-> source]

\* the names of a list of entries or recommendations; a missing name is
\* the one value undefined
NameKey(e) == IF e.hasName THEN e.name ELSE "undefined"

NamesOf(list) == { NameKey(list[i]) : i \in 1..Len(list) }

\* `for (const x of list) if (!seen.has(x.name)) { seen.add; merged.push }`
RECURSIVE PushUnseen(_, _, _)
PushUnseen(acc, list, i) ==
  IF i > Len(list) THEN acc
  ELSE PushUnseen(IF NameKey(list[i]) \in NamesOf(acc)
                    THEN acc ELSE Append(acc, list[i]),
                  list, i + 1)

\* the entries of the tags' template lists, as recommendations
RECURSIVE LocalEntries(_, _, _)
LocalEntries(tags, templates, i) ==
  IF i > Len(tags) THEN <<>>
  ELSE LET servers == templates[tags[i]]
       IN [k \in 1..Len(servers) |-> entryToRecommendation(servers[k], "built-in")]
            \o LocalEntries(tags, templates, i + 1)

loadLocalServers(tags, templates) ==
  PushUnseen(<<>>, LocalEntries(tags, templates, 1), 1)

SeqElems(q) == { q[i] : i \in 1..Len(q) }

\* data.servers.filter(e => e.tags.some(t => tagSet.has(t))) reads e.tags of
\* every entry: a TypeError when an entry has none
FilterThrows(servers) == \E i \in 1..Len(servers) : ~servers[i].hasTags

RECURSIVE FilterByTags_KeepAll(_, _, _)
FilterByTags_KeepAll(servers, tags, i) ==
  IF i > Len(servers) THEN <<>>
  ELSE <<entryToRecommendation(servers[i], "remote")>>
         \o FilterByTags_KeepAll(servers, tags, i + 1)

RECURSIVE FilterByTags(_, _, _)
FilterByTags(servers, tags, i) ==
  IF i > Len(servers) THEN <<>>
  ELSE (IF SeqElems(servers[i].tags) \cap SeqElems(tags) # {}
          THEN <<entryToRecommendation(servers[i], "remote")>> ELSE <<>>)
         \o FilterByTags(servers, tags, i + 1)

\* what the try block of fetchRemoteServers yields for a servers array:
\* the catch turns every throw into []
remoteFromPayload(servers, tags) ==
  IF FilterThrows(servers) THEN <<>> ELSE FilterByTags(servers, tags, 1)

\* a.name.localeCompare(b.name) orders these names as listed
NameOrder == <<"alpha", "beta", "delta", "epsilon", "gamma", "undefined">>
NameRank(n) == CHOOSE i \in 1..Len(NameOrder) : NameOrder[i] = n

\* the comparator of deduplicateServers returns a negative number
ComesBefore(a, b) ==
  LET tagDiff == Len(b.relevantTags) - Len(a.relevantTags)
  IN IF tagDiff # 0 THEN tagDiff < 0
     ELSE NameRank(NameKey(a)) < NameRank(NameKey(b))

\* stable insertion of x into a sorted list
RECURSIVE InsertSorted(_, _)
InsertSorted(sorted, x) ==
  IF sorted = <<>> THEN <<x>>
  ELSE IF ComesBefore(x, Head(sorted)) THEN <<x>> \o sorted
  ELSE <<Head(sorted)>> \o InsertSorted(Tail(sorted), x)

RECURSIVE SortFrom(_, _, _)
SortFrom(acc, list, i) ==
  IF i > Len(list) THEN acc
  ELSE SortFrom(InsertSorted(acc, list[i]), list, i + 1)

\* merged.sort(comparator)
SortServers(list) == SortFrom(<<>>, list, 1)

\* the comparator throws a TypeError when called with a nameless `a` and a
\* `b` of the same relevantTags length (undefined.localeCompare); which
\* pairs Array.prototype.sort compares, and in which order, is the
\* engine's choice
SortMayThrow(list) ==
  \E i, j \in 1..Len(list) :
    /\ i # j
    /\ ~list[i].hasName
    /\ Len(list[i].relevantTags) = Len(list[j].relevantTags)

\* deduplicateServers with the remote list taken first
deduplicateServers_RemoteFirst(local, remote) ==
  LET mergedList == PushUnseen(PushUnseen(<<>>, remote, 1), local, 1)
  IN { [threw |-> FALSE, list |-> SortServers(mergedList)] }
       \cup (IF SortMayThrow(mergedList)
               THEN { [threw |-> TRUE, list |-> <<>>] } ELSE {})

\* deduplicateServers(local, remote): the outcomes the call can have
deduplicateServers(local, remote) ==
  LET mergedList == PushUnseen(PushUnseen(<<>>, local, 1), remote, 1)
  IN { [threw |-> FALSE, list |-> SortServers(mergedList)] }
       \cup (IF SortMayThrow(mergedList)
               THEN { [threw |-> TRUE, list |-> <<>>] } ELSE {})

\* `return this.deduplicateServers(localServers, remoteServers)`
ReturnWith(remote, payload, outcome) ==
  /\ \E o \in deduplicateServers(localServers, remote) :
       /\ dpc' = (IF o.threw THEN "rejected" ELSE "returned")
       /\ result' = o.list
  /\ remotePayload' = payload
  /\ remoteOutcome' = outcome

\* options.remoteRegistryUrl ?? DEFAULT_REMOTE_REGISTRY_URL, the latter being
\* process.env["FORGECRAFT_MCP_REGISTRY_URL"] ?? "" (envUrl)
registryUrl_BuiltInDefault(options) ==
  IF options.remoteRegistryUrl # "undefined"
    THEN options.remoteRegistryUrl ELSE "url"

registryUrl(options) ==
  IF options.remoteRegistryUrl # "undefined"
    THEN options.remoteRegistryUrl ELSE options.envUrl

DiscInit ==
  /\ dTags \in TagLists
  /\ dTemplates \in TemplateChoices
  /\ dOptions \in [includeRemote : BOOLEAN,
                    remoteRegistryUrl : {"undefined", "", "url"},
                    envUrl : {"", "url"}]
  /\ dpc = "start"
  /\ timerArmed = FALSE
  /\ aborted = FALSE
  /\ fetchCalled = FALSE
  /\ localServers = <<>>
  /\ remotePayload = <<>>
  /\ remoteOutcome = "none"
  /\ result = <<>>
  /\ MergeIdle
  /\ FsIdle
  /\ ToolIdle

\* discoverServers up to its await: with remote discovery asked for and a
\* registry URL, the timer is set and fetch is called
DiscoverFetch ==
  /\ dpc = "start"
  /\ dOptions.includeRemote /\ registryUrl(dOptions) # ""
  /\ localServers' = loadLocalServers(dTags, dTemplates)
  /\ dpc' = "fetching"
  /\ timerArmed' = TRUE
  /\ fetchCalled' = TRUE
  /\ UNCHANGED <<dTags, dTemplates, dOptions, aborted, remotePayload,
                 remoteOutcome, result, mergeVars, fsVars, toolVars>>

\* discoverServers without a remote request
DiscoverLocalOnly ==
  /\ dpc = "start"
  /\ ~(dOptions.includeRemote /\ registryUrl(dOptions) # "")
  /\ localServers' = loadLocalServers(dTags, dTemplates)
  /\ \E o \in deduplicateServers(localServers', <<>>) :
       /\ dpc' = (IF o.threw THEN "rejected" ELSE "returned")
       /\ result' = o.list
  /\ UNCHANGED <<dTags, dTemplates, dOptions, timerArmed, aborted,
                 fetchCalled, remotePayload, remoteOutcome, mergeVars, fsVars, toolVars>>

\* setTimeout(() => controller.abort(), timeoutMs) fires
TimerFires ==
  /\ timerArmed
  /\ timerArmed' = FALSE
  /\ aborted' = TRUE
  /\ UNCHANGED <<dTags, dTemplates, dOptions, dpc, fetchCalled, localServers,
                 remotePayload, remoteOutcome, result, mergeVars, fsVars, toolVars>>

\* the aborted request rejects with an AbortError; the catch returns []
AbortRejects ==
  /\ dpc \in {"fetching", "readingBody"}
  /\ aborted
  /\ ReturnWith(<<>>, <<>>, "abort")
  /\ UNCHANGED <<dTags, dTemplates, dOptions, timerArmed, aborted,
                 fetchCalled, localServers, mergeVars, fsVars, toolVars>>

\* fetch rejects (network error); the catch returns [] and the timer stays
FetchRejects ==
  /\ dpc = "fetching"
  /\ ~aborted
  /\ ReturnWith(<<>>, <<>>, "network-error")
  /\ UNCHANGED <<dTags, dTemplates, dOptions, timerArmed, aborted,
                 fetchCalled, localServers, mergeVars, fsVars, toolVars>>

\* fetch resolves with the response head; clearTimeout; a status outside
\* 2xx throws DiscoveryError, which the catch turns into []
FetchResolves ==
  /\ dpc = "fetching"
  /\ ~aborted
  /\ timerArmed' = FALSE
  /\ \E ok \in BOOLEAN :
       IF ok
         THEN /\ dpc' = "readingBody"
              /\ UNCHANGED <<remotePayload, remoteOutcome, result>>
         ELSE ReturnWith(<<>>, <<>>, "non-2xx")
  /\ UNCHANGED <<dTags, dTemplates, dOptions, aborted, fetchCalled,
                 localServers, mergeVars, fsVars, toolVars>>

\* an entry lacks its name or its tags
Malformed(servers) ==
  \E i \in 1..Len(servers) : ~servers[i].hasName \/ ~servers[i].hasTags

\* response.json() settles: text that is no JSON, JSON without a servers
\* array, or a servers array
BodyArrives ==
  /\ dpc = "readingBody"
  /\ \/ ReturnWith(<<>>, <<>>, "invalid-json")
     \/ ReturnWith(<<>>, <<>>, "no-servers-array")
     \/ \E servers \in RemotePayloads :
          ReturnWith(remoteFromPayload(servers, dTags), servers,
                     IF Malformed(servers) THEN "malformed-entries" ELSE "ok")
  /\ UNCHANGED <<dTags, dTemplates, dOptions, timerArmed, aborted,
                 fetchCalled, localServers, mergeVars, fsVars, toolVars>>

\* the connection breaks while the body is read; the catch returns []
BodyFails ==
  /\ dpc = "readingBody"
  /\ ReturnWith(<<>>, <<>>, "network-error")
  /\ UNCHANGED <<dTags, dTemplates, dOptions, timerArmed, aborted,
                 fetchCalled, localServers, mergeVars, fsVars, toolVars>>

DiscNext ==
  \/ DiscoverFetch
  \/ DiscoverLocalOnly
  \/ TimerFires
  \/ AbortRejects
  \/ FetchRejects
  \/ FetchResolves
  \/ BodyArrives
  \/ BodyFails

DiscSpec == DiscInit /\ [][DiscNext]_vars

\* ------------------------------------------------------------------------
\* configure_mcp (tools/configure-mcp)
\* ------------------------------------------------------------------------
\* recommendations in the list discovery resolves with
MaxRecommendations == 3
\* largest max_servers a call is made with
MaxLimit == 2

\* a McpServerRecommendation: tier is optional
Rec(name, tier, hasTier, command, source) ==
  [name |-> name, tier |-> tier, hasTier |-> hasTier, command |-> command,
   source |-> source]

RecommendationPool ==
  { Rec("alpha", "core", TRUE, "run-alpha", "local"),
    Rec("beta", "optional", TRUE, "run-beta", "local"),
    Rec("gamma", "undefined", FALSE, "run-gamma", "local"),
    Rec("delta", "recommended", TRUE, "run-delta", "remote") }

\* discovery results: lists of recommendations with distinct names
RecommendationLists ==
  { l \in UNION { [1..k -> RecommendationPool] : k \in 0..MaxRecommendations } :
      \A i, j \in 1..Len(l) : i # j => l[i].name # l[j].name }

TIER_PRIORITY == [core |-> 0, recommended |-> 1, optional |-> 2]

\* TIER_PRIORITY[rec.tier ?? "recommended"] ?? 1
tierPriority(rec) ==
  LET t == IF rec.hasTier THEN rec.tier ELSE "recommended"
  IN  IF t \in DOMAIN TIER_PRIORITY THEN TIER_PRIORITY[t] ELSE 1

\* Array.prototype.sort is stable: x goes behind every element that does
\* not compare greater
InsertByTier(sorted, x) ==
  LET k == Cardinality({ i \in 1..Len(sorted) :
                           tierPriority(sorted[i]) <= tierPriority(x) })
  IN  SubSeq(sorted, 1, k) \o <<x>> \o SubSeq(sorted, k + 1, Len(sorted))

RECURSIVE SortByTier(_, _, _)
SortByTier(acc, list, i) ==
  IF i > Len(list) THEN acc
  ELSE SortByTier(InsertByTier(acc, list[i]), list, i + 1)

\* Array.prototype.slice(0, n)
Slice(list, n) == SubSeq(list, 1, IF n < Len(list) THEN n ELSE Len(list))

\* the slice taken before the sort
filterByTierPriority_SliceBeforeSort(recommendations, maxCount) ==
  SortByTier(<<>>, Slice(recommendations, maxCount), 1)

filterByTierPriority(recommendations, maxCount) ==
  Slice(SortByTier(<<>>, recommendations, 1), maxCount)

\* JavaScript objects keep their keys in insertion order: an object is a
\* sequence of [key, val]; assigning an existing key keeps its place
HasKey(obj, k) == \E i \in 1..Len(obj) : obj[i].key = k

SetKey(obj, k, v) ==
  IF HasKey(obj, k)
    THEN [i \in 1..Len(obj) |->
            IF obj[i].key = k THEN [key |-> k, val |-> v] ELSE obj[i]]
    ELSE Append(obj, [key |-> k, val |-> v])

\* { ...base, ...over }
RECURSIVE Spread(_, _)
Spread(base, over) ==
  IF over = <<>> THEN base
  ELSE Spread(SetKey(base, Head(over).key, Head(over).val), Tail(over))

\* the loop over recommendations, then the loop over custom_servers
RECURSIVE AddRecs(_, _, _)
AddRecs(servers, recs, i) ==
  IF i > Len(recs) THEN servers
  ELSE AddRecs(SetKey(servers, recs[i].name,
                      [command |-> recs[i].command, source |-> recs[i].source]),
               recs, i + 1)

RECURSIVE AddCustom(_, _, _)
AddCustom(servers, custom, i) ==
  IF i > Len(custom) THEN servers
  ELSE AddCustom(SetKey(servers, custom[i].key,
                        [command |-> custom[i].val, source |-> "custom"]),
                 custom, i + 1)

buildServers(recs, custom) == AddCustom(AddRecs(<<>>, recs, 1), custom, 1)

\* mcpConfig: command, args and env of every entry of servers
mcpConfigOf(servers) ==
  [i \in 1..Len(servers) |->
     [key |-> servers[i].key, val |-> servers[i].val.command]]

\* `mcp__${serverName}__*`
RuleFor(serverName) == "mcp__" \o serverName \o "__*"

permissionRulesOf(servers, autoApprove) ==
  IF autoApprove THEN [i \in 1..Len(servers) |-> RuleFor(servers[i].key)]
  ELSE <<>>

\* [...new Set(list)]
RECURSIVE UniqueFrom(_, _, _)
UniqueFrom(acc, list, i) ==
  IF i > Len(list) THEN acc
  ELSE UniqueFrom(IF \E j \in 1..Len(acc) : acc[j] = list[i]
                    THEN acc ELSE Append(acc, list[i]),
                  list, i + 1)

\* settings: { mcpServers } and, with rules, permissions: { allow }; the
\* values "<object>" and "<array>" hold the place of an object and of an
\* array, which the fields perms, servers and allow spell out
newSettings(mcpConfig, rules) ==
  IF Len(rules) > 0
    THEN [top |-> <<[key |-> "mcpServers", val |-> "<object>"],
                    [key |-> "permissions", val |-> "<object>"]>>,
          perms |-> <<[key |-> "allow", val |-> "<array>"]>>,
          allow |-> rules, servers |-> mcpConfig]
    ELSE [top |-> <<[key |-> "mcpServers", val |-> "<object>"]>>,
          perms |-> <<>>, allow |-> <<>>, servers |-> mcpConfig]

\* the try block throws: JSON.parse fails, the parsed value is null, or
\* permissions.allow is a value the array spread cannot iterate
MergeThrows(file) ==
  \/ file.kind \in {"unparseable", "null"}
  \/ /\ file.kind = "object"
     /\ \E i \in 1..Len(file.json.perms) :
          /\ file.json.perms[i].key = "allow"
          /\ file.json.perms[i].val # "<array>"

\* merged = { ...existing, permissions: {...}, mcpServers: {...} }
mergedSettings(existingJson, mcpConfig, rules) ==
  [top |-> SetKey(SetKey(existingJson.top, "permissions", "<object>"),
                  "mcpServers", "<object>"),
   perms |-> SetKey(existingJson.perms, "allow", "<array>"),
   allow |-> UniqueFrom(<<>>, existingJson.allow \o rules, 1),
   servers |-> Spread(existingJson.servers, mcpConfig)]

\* what writeFileSync(settingsPath, JSON.stringify(merged)) leaves
writtenSettings(file, mcpConfig, rules) ==
  [kind |-> "object",
   json |-> IF file.kind = "absent" \/ MergeThrows(file)
              THEN newSettings(mcpConfig, rules)
              ELSE mergedSettings(file.json, mcpConfig, rules)]

\* settings files a project may hold before the call; in the last one
\* "allow" is true, a value that is no array
SettingsFiles ==
  { AbsentFile,
    [kind |-> "unparseable", json |-> EmptyJson],
    [kind |-> "null", json |-> EmptyJson],
    [kind |-> "object", json |-> EmptyJson],
    [kind |-> "object", json |->
       [top |-> <<[key |-> "model", val |-> "opus"],
                  [key |-> "permissions", val |-> "<object>"],
                  [key |-> "mcpServers", val |-> "<object>"]>>,
        perms |-> <<[key |-> "deny", val |-> "[Bash(rm)]"],
                    [key |-> "allow", val |-> "<array>"]>>,
        allow |-> <<"Bash(ls)", "mcp__alpha__*">>,
        servers |-> <<[key |-> "alpha", val |-> "old-alpha"],
                      [key |-> "zeta", val |-> "run-zeta"]>>]],
    [kind |-> "object", json |->
       [top |-> <<[key |-> "mcpServers", val |-> "<object>"],
                  [key |-> "hooks", val |-> "{}"]>>,
        perms |-> <<>>, allow |-> <<>>,
        servers |-> <<[key |-> "zeta", val |-> "run-zeta"]>>]],
    [kind |-> "object", json |->
       [top |-> <<[key |-> "permissions", val |-> "<object>"]>>,
        perms |-> <<[key |-> "allow", val |-> "<array>"]>>,
        allow |-> <<"Bash(ls)", "Bash(ls)">>, servers |-> <<>>]],
    [kind |-> "object", json |->
       [top |-> <<[key |-> "model", val |-> "opus"],
                  [key |-> "permissions", val |-> "<object>"],
                  [key |-> "mcpServers", val |-> "<object>"]>>,
        perms |-> <<[key |-> "allow", val |-> "true"]>>,
        allow |-> <<>>,
        servers |-> <<[key |-> "zeta", val |-> "run-zeta"]>>]] }

\* max_servers is absent or a positive integer; custom_servers is what
\* Object.entries lists, name and command
ConfigInit ==
  /\ \E hasMax \in BOOLEAN, auto \in BOOLEAN :
     \E n \in (IF hasMax THEN 1..MaxLimit ELSE {0}) :
     \E custom \in { <<>>,
                     <<[key |-> "omega", val |-> "run-omega"]>>,
                     <<[key |-> "alpha", val |-> "my-alpha"]>>,
                     <<[key |-> "omega", val |-> "run-omega"],
                       [key |-> "alpha", val |-> "my-alpha"]>> } :
       cArgs = [hasMax |-> hasMax, maxServers |-> n,
                customServers |-> custom, autoApprove |-> auto]
  /\ cRecs \in RecommendationLists
  /\ cFile0 \in SettingsFiles
  /\ cFile = cFile0
  /\ cKept = <<>>
  /\ cServers = <<>>
  /\ cRules = <<>>
  /\ cpc = "start"
  /\ MergeIdle
  /\ FsIdle
  /\ DiscIdle
  /\ RouterIdle
  /\ ProjIdle
  /\ RenderIdle
  /\ LangIdle

\* configureMcpHandler, from the resolved discovery to the written file; the
\* call is made, and then made once more with the same arguments and the
\* same discovery result
ConfigureMcp ==
  /\ cpc \in {"start", "done"}
  /\ cKept' = (IF cArgs.hasMax /\ Len(cRecs) > cArgs.maxServers
                 THEN filterByTierPriority(cRecs, cArgs.maxServers)
                 ELSE cRecs)
  /\ cServers' = buildServers(cKept', cArgs.customServers)
  /\ cRules' = permissionRulesOf(cServers', cArgs.autoApprove)
  /\ cFile' = writtenSettings(cFile, mcpConfigOf(cServers'), cRules')
  /\ cpc' = (IF cpc = "start" THEN "done" ELSE "again")
  /\ UNCHANGED <<cArgs, cRecs, cFile0, mergeVars, fsVars, discVars, routerVars,
                 projVars, renderVars, langVars>>

ConfigSpec == ConfigInit /\ [][ConfigureMcp]_vars

\* ------------------------------------------------------------------------
\* The forgecraft router (tools/forgecraft-router)
\* ------------------------------------------------------------------------
\* ACTIONS (a reserved word here)
Actions ==
  { "list", "get_reference", "classify", "refresh", "scaffold", "generate",
    "audit", "review", "add_hook", "add_module", "configure_mcp", "convert" }

\* the outcomes of forgecraftHandler: the call of a delegated handler, a
\* rejection, or a returned text
Delegate(handler) == [kind |-> "delegated", handler |-> handler, text |-> ""]
Reject(message) == [kind |-> "rejected", handler |-> "none", text |-> message]

errorResult(message) ==
  [kind |-> "returned", handler |-> "none", text |-> "Error: " \o message]

\* requireParam without the test for the empty array
requireParam_UndefinedOnly(value, paramName, action) ==
  [threw |-> value = "undefined",
   message |-> "Missing required parameter '" \o paramName
               \o "' for action '" \o action \o "'."]

requireParam(value, paramName, action) ==
  [threw |-> value = "undefined" \/ value = "empty",
   message |-> "Missing required parameter '" \o paramName
               \o "' for action '" \o action \o "'."]

\* handler({ p1: requireParam(args.p1, ...), p2: requireParam(...) }): the
\* properties are evaluated in order, the first throw leaves the function
RECURSIVE CallWith(_, _, _, _)
CallWith(args, action, params, handler) ==
  IF params = <<>> THEN Delegate(handler)
  ELSE LET r == requireParam(args[Head(params)], Head(params), action)
       IN  IF r.threw THEN Reject(r.message)
           ELSE CallWith(args, action, Tail(params), handler)

\* dispatchList with the tags listing as the default of its switch
dispatchList_DefaultToTags(args) ==
  CASE args.resource = "hooks" -> Delegate("listHooksHandler")
    [] args.resource = "skills" -> Delegate("listSkillsHandler")
    [] OTHER -> Delegate("listTagsHandler")

dispatchList(args) ==
  LET resource == IF args.resource = "undefined" THEN "tags" ELSE args.resource
  IN  CASE resource = "tags" -> Delegate("listTagsHandler")
        [] resource = "hooks" -> Delegate("listHooksHandler")
        [] resource = "skills" -> Delegate("listSkillsHandler")
        [] OTHER -> errorResult("Invalid resource '" \o resource
                      \o "' for list action. Use: tags, hooks, or skills.")

dispatchGetReference(args) ==
  LET resource == IF args.resource = "undefined" THEN "design_patterns"
                  ELSE args.resource
      tags == requireParam(args.tags, "tags", "get_reference")
  IN  IF tags.threw THEN Reject(tags.message)
      ELSE CASE resource = "nfr" -> Delegate("getNfrTemplateHandler")
             [] resource = "design_patterns" ->
                  Delegate("getDesignReferenceHandler")
             [] OTHER -> errorResult("Invalid resource '" \o resource
                  \o "' for get_reference action. Use: nfr or design_patterns.")

forgecraftHandler(args) ==
  LET a == args.action
  IN  CASE a = "list" -> dispatchList(args)
        [] a = "get_reference" -> dispatchGetReference(args)
        [] a = "classify" -> Delegate("classifyProjectHandler")
        [] a = "refresh" ->
             CallWith(args, a, <<"project_dir">>, "refreshProjectHandler")
        [] a = "scaffold" ->
             CallWith(args, a, <<"tags", "project_dir">>,
                      "scaffoldProjectHandler")
        [] a = "generate" ->
             CallWith(args, a, <<"tags">>, "generateInstructionsHandler")
        [] a = "audit" ->
             CallWith(args, a, <<"tags", "project_dir">>, "auditProjectHandler")
        [] a = "review" -> CallWith(args, a, <<"tags">>, "reviewProjectHandler")
        [] a = "add_hook" ->
             CallWith(args, a, <<"name", "project_dir">>, "addHookHandler")
        [] a = "add_module" ->
             CallWith(args, a, <<"name", "project_dir">>, "addModuleHandler")
        [] a = "configure_mcp" ->
             CallWith(args, a, <<"tags", "project_dir">>, "configureMcpHandler")
        [] a = "convert" ->
             CallWith(args, a, <<"tags", "project_dir">>,
                      "convertExistingHandler")
        [] OTHER -> errorResult("Unknown action: " \o a)

\* the arguments of a call: a parameter is "undefined", "empty" (an array
\* without elements) or "given"; a string parameter is never an array
RouterInit ==
  /\ rArgs \in [action : Actions,
                tags : {"undefined", "empty", "given"},
                project_dir : {"undefined", "given"},
                name : {"undefined", "given"},
                resource : {"undefined", "tags", "hooks", "skills", "nfr",
                            "design_patterns", "templates"}]
  /\ rOut = NoOutcome
  /\ MergeIdle
  /\ FsIdle
  /\ DiscIdle
  /\ CfgIdle
  /\ ProjIdle
  /\ RenderIdle
  /\ LangIdle

\* one call of forgecraftHandler
Route ==
  /\ rOut = NoOutcome
  /\ rOut' = forgecraftHandler(rArgs)
  /\ UNCHANGED <<rArgs, mergeVars, fsVars, discVars, cfgVars, projVars,
                 renderVars, langVars>>

RouterSpec == RouterInit /\ [][Route]_vars

\* ------------------------------------------------------------------------
\* The generate, scaffold and get_reference handlers
\* ------------------------------------------------------------------------
\* tags in the list a caller passes
MaxTags == 2
\* paths of the project directory that exist before the call
MaxPreexisting == 1

\* tags: z.array(z.enum(ALL_TAGS)).min(1)
TagArgs == UNION { [1..k -> {"UNIVERSAL", "API", "CLI"}] : k \in 1..MaxTags }

\* args.tags.includes("UNIVERSAL") ? args.tags : ["UNIVERSAL", ...args.tags]
effectiveTags(tags) ==
  IF \E i \in 1..Len(tags) : tags[i] = "UNIVERSAL" THEN tags
  ELSE <<"UNIVERSAL">> \o tags

\* the instruction file of an output target
TargetFile(target) == IF target = "claude" THEN "CLAUDE.md" ELSE ".windsurfrules"

\* the composed result holds one directory entry (src), one hook and one
\* skill
FilePaths ==
  { "CLAUDE.md", ".windsurfrules", "Status.md", "docs/PRD.md",
    "docs/TechSpec.md", ".env.example", ".claude/hooks/pre-commit.sh", ".claude/commands/review.md", ".gitignore" }

DirPaths == { "src", "docs", ".claude/hooks", ".claude/commands" }

\* the directory a file of FilePaths lies in ("." is the project root)
DirOf(path) ==
  CASE path \in {"docs/PRD.md", "docs/TechSpec.md"} -> "docs"
    [] path = ".claude/hooks/pre-commit.sh" -> ".claude/hooks"
    [] path = ".claude/commands/review.md" -> ".claude/commands"
    [] OTHER -> "."

\* text of a file the user wrote, and a rendered text
UserText == <<"#", "#", " ", "u">>
RenderedText == <<"#", "#", " ", "g">>

Nothing == [kind |-> "none", content |-> <<>>, mode |-> "none"]
Directory == [kind |-> "dir", content |-> <<>>, mode |-> "0755"]
File(content, mode) == [kind |-> "file", content |-> content, mode |-> mode]

\* project directories before the call: some files of the user and the
\* directories they lie in, or the src directory
ProjectDisks ==
  { [p \in FilePaths \cup DirPaths |->
       IF p \in S THEN (IF p = "src" THEN Directory ELSE File(UserText, "0644"))
       ELSE IF \E f \in S \cap FilePaths : DirOf(f) = p THEN Directory
       ELSE Nothing] :
    S \in { T \in SUBSET (FilePaths \cup {"src"}) :
              Cardinality(T) <= MaxPreexisting } }

\* the file-system steps of scaffoldProjectHandler after the dry-run return
scaffoldSteps(targets) ==
  <<[path |-> "src", kind |-> "structure"]>>
  \o [i \in 1..Len(targets) |->
        [path |-> TargetFile(targets[i]), kind |-> "write"]]
  \o <<[path |-> "Status.md", kind |-> "write"],
       [path |-> "docs", kind |-> "mkdir"],
       [path |-> "docs/PRD.md", kind |-> "write"],
       [path |-> "docs/TechSpec.md", kind |-> "write"],
       [path |-> ".env.example", kind |-> "write"],
       [path |-> ".claude/hooks", kind |-> "mkdir"],
       [path |-> ".claude/hooks/pre-commit.sh", kind |-> "hook"],
       [path |-> ".claude/commands", kind |-> "mkdir"],
       [path |-> ".claude/commands/review.md", kind |-> "write"],
       [path |-> ".gitignore", kind |-> "write"]>>

\* the file-system steps of generateInstructionsHandler
generateSteps(targets, merge) ==
  [i \in 1..Len(targets) |->
     [path |-> TargetFile(targets[i]),
      kind |-> IF merge THEN "merge" ELSE "overwrite"]]

\* a run of steps: the disk, the two report lists, the paths written or
\* created, and whether a file-system call threw
RunStart(d) ==
  [disk |-> d, created |-> <<>>, skipped |-> <<>>, written |-> {},
   threw |-> FALSE]

\* the step calls mkdirSync or writeFileSync, which may throw
CallsFs(st, step, force) ==
  step.kind \in {"write", "hook"} => (st.disk[step.path].kind = "none" \/ force)

\* writeFileSync leaves the mode of an existing file as it is
WriteTo(d, path, content) ==
  LET dirs == IF DirOf(path) = "." THEN d
              ELSE [d EXCEPT ![DirOf(path)] = Directory]
  IN  [dirs EXCEPT ![path] =
         File(content, IF d[path].kind = "file" THEN d[path].mode ELSE "0644")]

\* trackWrite: writeFileIfMissing and the report lists
trackWrite(st, path, force) ==
  LET old == st.disk[path]
      r == writeFileIfMissing(old.kind # "none", old.content, RenderedText,
                              force)
  IN  IF r.result = "skipped"
        THEN [st EXCEPT !.skipped = Append(@, path)]
        ELSE [st EXCEPT !.disk = WriteTo(@, path, r.content),
                        !.created = Append(@, path),
                        !.written = @ \cup {path}]

\* one step; chmodOk tells whether chmodSync succeeds
applyStep(st, step, force, chmodOk) ==
  LET p == step.path
      old == st.disk[p]
  IN  CASE step.kind = "structure" ->
             [st EXCEPT !.disk = [@ EXCEPT ![p] = Directory],
                        !.created = Append(@, p \o "/"),
                        !.written = IF old.kind = "none" THEN @ \cup {p} ELSE @]
        [] step.kind = "mkdir" ->
             [st EXCEPT !.disk = [@ EXCEPT ![p] = Directory],
                        !.written = IF old.kind = "none" THEN @ \cup {p} ELSE @]
        [] step.kind = "write" -> trackWrite(st, p, force)
        [] step.kind = "hook" ->
             LET w == trackWrite(st, p, force)
             IN  IF chmodOk
                   THEN [w EXCEPT !.disk = [@ EXCEPT ![p].mode = "0755"]]
                   ELSE w
        [] step.kind = "merge" ->
             LET r == writeInstructionFileWithMerge(old.kind # "none",
                                                    old.content, RenderedText)
             IN  [st EXCEPT !.disk = WriteTo(@, p, r.content),
                            !.written = @ \cup {p}]
        [] OTHER ->
             [st EXCEPT !.disk = WriteTo(@, p, RenderedText),
                        !.written = @ \cup {p}]

\* the steps in order; the file-system call of step failAt throws
RECURSIVE RunSteps(_, _, _, _, _, _)
RunSteps(st, steps, i, failAt, force, chmodOk) ==
  IF i > Len(steps) THEN st
  ELSE IF i = failAt /\ CallsFs(st, steps[i], force)
    THEN [st EXCEPT !.threw = TRUE]
    ELSE RunSteps(applyStep(st, steps[i], force, chmodOk), steps, i + 1,
                  failAt, force, chmodOk)

\* scaffoldProjectHandler with the dry-run return behind the structure loop
scaffoldRun_DryRunAfterStructure(call, d, failAt, chmodOk) ==
  IF call.dryRun
    THEN RunSteps(RunStart(d), SubSeq(scaffoldSteps(call.targets), 1, 1), 1,
                  failAt, call.force, chmodOk)
    ELSE RunSteps(RunStart(d), scaffoldSteps(call.targets), 1, failAt,
                  call.force, chmodOk)

\* scaffoldProjectHandler from the composed result on
scaffoldRun(call, d, failAt, chmodOk) ==
  IF call.dryRun THEN RunStart(d)
  ELSE RunSteps(RunStart(d), scaffoldSteps(call.targets), 1, failAt,
                call.force, chmodOk)

\* generateInstructionsHandler from the composed result on
generateRun(call, d, failAt) ==
  IF ~call.projectDir THEN RunStart(d)
  ELSE RunSteps(RunStart(d), generateSteps(call.targets, call.merge), 1,
                failAt, FALSE, FALSE)

ProjInit ==
  /\ pCall \in [handler : {"generate", "scaffold", "get_reference"},
                tags : TagArgs, projectDir : BOOLEAN, dryRun : BOOLEAN,
                force : BOOLEAN, merge : BOOLEAN,
                targets : { <<"claude">>, <<"windsurf">>,
                            <<"claude", "windsurf">>,
                            <<"windsurf", "claude">> }]
  \* parameters a handler does not have stay at one value
  /\ pCall.handler = "generate" => ~pCall.dryRun /\ ~pCall.force
  /\ pCall.handler = "scaffold" => pCall.projectDir /\ ~pCall.merge
  /\ pCall.handler = "get_reference" =>
       /\ ~pCall.projectDir /\ ~pCall.dryRun /\ ~pCall.force /\ ~pCall.merge
       /\ pCall.targets = <<"claude">>
  /\ disk0 \in ProjectDisks
  /\ pCall.handler = "get_reference" => disk0 = [p \in DOMAIN disk0 |-> Nothing]
  /\ disk = disk0
  /\ pTags = <<>>
  /\ ppc = "start"
  /\ filesCreated = <<>>
  /\ filesSkipped = <<>>
  /\ pWritten = {}
  /\ MergeIdle
  /\ FsIdle
  /\ DiscIdle
  /\ CfgIdle
  /\ RouterIdle
  /\ RenderIdle
  /\ LangIdle

\* the end of a call whose steps ran as st tells
Finish(st) ==
  /\ pTags' = effectiveTags(pCall.tags)
  /\ disk' = st.disk
  /\ filesCreated' = st.created
  /\ filesSkipped' = st.skipped
  /\ pWritten' = st.written
  /\ ppc' = (IF st.threw THEN "rejected" ELSE "returned")
  /\ UNCHANGED <<pCall, disk0, mergeVars, fsVars, discVars, cfgVars,
                 routerVars, renderVars, langVars>>

\* loadAllTemplatesWithExtras or composeTemplates throws
LoadOrComposeFails ==
  /\ ppc = "start"
  /\ Finish([RunStart(disk) EXCEPT !.threw = TRUE])

Scaffold ==
  /\ ppc = "start"
  /\ pCall.handler = "scaffold"
  /\ \E failAt \in 0..Len(scaffoldSteps(pCall.targets)), chmodOk \in BOOLEAN :
       Finish(scaffoldRun(pCall, disk, failAt, chmodOk))

Generate ==
  /\ ppc = "start"
  /\ pCall.handler = "generate"
  /\ \E failAt \in 0..Len(pCall.targets) :
       Finish(generateRun(pCall, disk, failAt))

GetReference ==
  /\ ppc = "start"
  /\ pCall.handler = "get_reference"
  /\ Finish(RunStart(disk))

ProjNext == LoadOrComposeFails \/ Scaffold \/ Generate \/ GetReference

ProjSpec == ProjInit /\ [][ProjNext]_vars

\* ------------------------------------------------------------------------
\* The renderer: placeholder substitution (registry/renderer, renderTemplate)
\* ------------------------------------------------------------------------
\* tokens of a template
MaxTokens == 2

\* snake_case to camelCase: an underscore goes and the character behind it
\* becomes its capital
RECURSIVE toCamelCase(_)
toCamelCase(name) ==
  LET upper(ch) == CASE ch = "b" -> "B" [] ch = "f" -> "F" [] OTHER -> ch
  IN  IF name = <<>> THEN <<>>
      ELSE IF Head(name) = "_" /\ Len(name) >= 2
        THEN <<upper(name[2])>> \o toCamelCase(SubSeq(name, 3, Len(name)))
        ELSE <<Head(name)>> \o toCamelCase(Tail(name))

\* what stands between {{ and }}: a name and, behind a bar, default: value;
\* white space around the parts does not count
parsePlaceholder(inner) ==
  LET bars == { i \in 1..Len(inner) : inner[i] = "|" }
      bar == IF bars = {} THEN 0
             ELSE CHOOSE i \in bars : \A j \in bars : i <= j
      rest == IF bar = 0 THEN <<>>
              ELSE Trim(SubSeq(inner, bar + 1, Len(inner)))
      key == <<"d", "e", "f", "a", "u", "l", "t", ":">>
  IN  [name |-> Trim(IF bar = 0 THEN inner ELSE SubSeq(inner, 1, bar - 1)),
       hasDefault |-> StartsWith(rest, key),
       default |-> IF StartsWith(rest, key)
                     THEN Trim(SubSeq(rest, Len(key) + 1, Len(rest)))
                     ELSE <<>>]

\* the context field a name reaches: the name itself or its camelCase form
resolveVariable_ExactNameOnly(name, context) ==
  IF name \in DOMAIN context
    THEN [found |-> TRUE, value |-> context[name]]
    ELSE [found |-> FALSE, value |-> <<>>]

resolveVariable(name, context) ==
  IF name \in DOMAIN context
    THEN [found |-> TRUE, value |-> context[name]]
    ELSE IF toCamelCase(name) \in DOMAIN context
      THEN [found |-> TRUE, value |-> context[toCamelCase(name)]]
      ELSE [found |-> FALSE, value |-> <<>>]

\* tokens of a template with conditional blocks
MaxBlockTokens == 5

\* every {{/if}} closes a block that is open, and no block stays open
WellFormed(template) ==
  LET depth(i) ==
        Cardinality({ j \in 1..i : template[j].kind = "if" })
          - Cardinality({ j \in 1..i : template[j].kind = "endif" })
  IN  /\ \A i \in 1..Len(template) : depth(i) >= 0
      /\ depth(Len(template)) = 0

\* the {{/if}} that ends the block opening at the head of the template (0
\* when there is none)
closeOf_Nearest(template) ==
  LET ends == { k \in 2..Len(template) : template[k].kind = "endif" }
  IN  IF ends = {} THEN 0 ELSE CHOOSE k \in ends : \A m \in ends : k <= m

closeOf(template) ==
  LET open(k) ==
        Cardinality({ j \in 1..k : template[j].kind = "if" })
          - Cardinality({ j \in 1..k : template[j].kind = "endif" })
      ends == { k \in 2..Len(template) : open(k) = 0 }
  IN  IF ends = {} THEN 0 ELSE CHOOSE k \in ends : \A m \in ends : k <= m

\* conditional blocks: a block whose predicate holds leaves its inner
\* content, any other block leaves nothing; language_is_X (l_X here) holds
\* when the language of the context is X, an unknown predicate never holds
RECURSIVE resolveConditionalBlocks(_, _)
resolveConditionalBlocks(template, context) ==
  IF template = <<>> THEN <<>>
  ELSE LET t == Head(template)
           k == closeOf(template)
       IN  IF t.kind # "if" \/ k = 0
             THEN <<t>> \o resolveConditionalBlocks(Tail(template), context)
             ELSE (IF t.body = <<"l", "_">> \o context[<<"l">>]
                     THEN resolveConditionalBlocks(
                            SubSeq(template, 2, k - 1), context)
                     ELSE <<>>)
                  \o resolveConditionalBlocks(
                       SubSeq(template, k + 1, Len(template)), context)

\* a template is a sequence of pieces of text, placeholders and block
\* delimiters; the result is the text left by the conditional blocks with
\* every placeholder replaced
RECURSIVE substitute(_, _)
substitute(template, context) ==
  IF template = <<>> THEN <<>>
  ELSE LET t == Head(template)
           ph == parsePlaceholder(t.body)
           r == resolveVariable(ph.name, context)
       IN  (CASE t.kind = "text" -> t.body
              [] t.kind = "if" ->
                   <<"{", "{", "#", "i", "f", " ">> \o t.body \o <<"}", "}">>
              [] t.kind = "endif" -> <<"{", "{", "/", "i", "f", "}", "}">>
              [] OTHER ->
                   IF r.found THEN r.value
                   ELSE IF ph.hasDefault THEN ph.default
                   ELSE <<"{", "{">> \o t.body \o <<"}", "}">>)
           \o substitute(Tail(template), context)

renderTemplate(template, context) ==
  substitute(resolveConditionalBlocks(template, context), context)

\* templates over one piece of text and seven placeholders, where aB stands
\* for a camelCase field such as projectName and a_b for its snake_case
\* spelling, and well-formed templates over a line of text, a placeholder,
\* three block openings and the block end; contexts with a language (l) and
\* with no other field, with aB, and with aB and c
RenderInit ==
  /\ tTemplate \in
       UNION { [1..k ->
                 { [kind |-> "text", body |-> <<"x">>],
                   [kind |-> "var", body |-> <<"a", "B">>],
                   [kind |-> "var", body |-> <<" ", "a", "B", " ">>],
                   [kind |-> "var", body |-> <<"a", "_", "b">>],
                   [kind |-> "var", body |-> <<"c">>],
                   [kind |-> "var", body |->
                      <<"c", "|", "d", "e", "f", "a", "u", "l", "t", ":", "d">>],
                   [kind |-> "var", body |->
                      <<" ", "a", "_", "b", " ", "|", " ", "d", "e", "f", "a",
                        "u", "l", "t", ":", " ", "d", " ">>],
                   [kind |-> "var", body |->
                      <<"e", "_", "f", " ", "|", " ", "d", "e", "f", "a", "u",
                        "l", "t", ":", " ", "d">>] }] : k \in 0..MaxTokens }
       \cup
       { tp \in UNION { [1..k ->
                 { [kind |-> "text", body |-> <<"x", NL>>],
                   [kind |-> "var", body |-> <<"a", "_", "b">>],
                   [kind |-> "if", body |-> <<"l", "_", "t">>],
                   [kind |-> "if", body |-> <<"l", "_", "p">>],
                   [kind |-> "if", body |-> <<"z">>],
                   [kind |-> "endif", body |-> <<>>] }] :
                 k \in 1..MaxBlockTokens } : WellFormed(tp) }
  /\ tContext \in
       { [n \in fields \cup {<<"l">>} |->
            CASE n = <<"l">> -> language
              [] n = <<"c">> -> <<"w">>
              [] OTHER -> <<"v">>] :
           fields \in { {}, {<<"a", "B">>}, {<<"a", "B">>, <<"c">>} },
           language \in { <<"t">>, <<"p">> } }
  /\ tOut = <<>>
  /\ tpc = "start"
  /\ MergeIdle
  /\ FsIdle
  /\ DiscIdle
  /\ CfgIdle
  /\ RouterIdle
  /\ ProjIdle
  /\ LangIdle

\* one call of renderTemplate
Render ==
  /\ tpc = "start"
  /\ tOut' = renderTemplate(tTemplate, tContext)
  /\ tpc' = "done"
  /\ UNCHANGED <<tTemplate, tContext, mergeVars, fsVars, discVars, cfgVars,
                 routerVars, projVars, langVars>>

RenderSpec == RenderInit /\ [][Render]_vars

\* ------------------------------------------------------------------------
\* The language detector (analyzers/language-detector)
\* ------------------------------------------------------------------------
\* runs of a listing of src/
MaxRuns == 2

\* entries.slice(0, 100)
SliceLimit == 100

\* countSourceFiles(projectDir).  src is the state of <projectDir>/src: absent,
\* unreadable (readdirSync throws) or listed; a listing is a sequence of
\* runs, a run being n entries in a row whose names end as `name` does
countSourceFiles_NoSlice(src) ==
  LET EndsWith(name, suffix) ==
        /\ Len(name) >= Len(suffix)
        /\ SubSeq(name, Len(name) - Len(suffix) + 1, Len(name)) = suffix
      isPy(name) == EndsWith(name, <<".", "p", "y">>)
      isTs(name) ==
        \/ EndsWith(name, <<".", "t", "s">>)
        \/ EndsWith(name, <<".", "t", "s", "x">>)
        \/ EndsWith(name, <<".", "j", "s">>)
        \/ EndsWith(name, <<".", "j", "s", "x">>)
      RECURSIVE count(_, _, _)
      count(runs, pyCount, tsCount) ==
        IF runs = <<>>
          THEN IF pyCount > tsCount THEN "python" ELSE "typescript"
          ELSE LET name == Head(runs).name
                   taken == Head(runs).n
               IN  count(Tail(runs),
                         IF isPy(name) THEN pyCount + taken ELSE pyCount,
                         IF ~isPy(name) /\ isTs(name)
                           THEN tsCount + taken ELSE tsCount)
  IN  CASE src.state = "absent" -> "typescript"
        [] src.state = "unreadable" -> "typescript"
        [] OTHER -> count(src.entries, 0, 0)

countSourceFiles(src) ==
  LET EndsWith(name, suffix) ==
        /\ Len(name) >= Len(suffix)
        /\ SubSeq(name, Len(name) - Len(suffix) + 1, Len(name)) = suffix
      isPy(name) == EndsWith(name, <<".", "p", "y">>)
      isTs(name) ==
        \/ EndsWith(name, <<".", "t", "s">>)
        \/ EndsWith(name, <<".", "t", "s", "x">>)
        \/ EndsWith(name, <<".", "j", "s">>)
        \/ EndsWith(name, <<".", "j", "s", "x">>)
      RECURSIVE count(_, _, _, _)
      count(runs, left, pyCount, tsCount) ==
        IF runs = <<>>
          THEN IF pyCount > tsCount THEN "python" ELSE "typescript"
          ELSE LET name == Head(runs).name
                   taken == IF Head(runs).n <= left THEN Head(runs).n ELSE left
               IN  count(Tail(runs), left - taken,
                         IF isPy(name) THEN pyCount + taken ELSE pyCount,
                         IF ~isPy(name) /\ isTs(name)
                           THEN tsCount + taken ELSE tsCount)
  IN  CASE src.state = "absent" -> "typescript"
        [] src.state = "unreadable" -> "typescript"
        [] OTHER -> count(src.entries, SliceLimit, 0, 0)

\* detectLanguage(projectDir); project.files are the names existsSync finds
\* in the project directory
detectLanguage(project) ==
  LET hasPython ==
        \E f \in {"pyproject.toml", "setup.py", "setup.cfg",
                   "requirements.txt", "Pipfile"} : f \in project.files
      hasTypeScript ==
        \E f \in {"tsconfig.json", "package.json"} : f \in project.files
  IN  IF hasPython /\ ~hasTypeScript THEN "python"
      ELSE IF hasTypeScript /\ ~hasPython THEN "typescript"
      ELSE IF hasPython /\ hasTypeScript THEN countSourceFiles(project.src)
      ELSE "typescript"

\* project directories: any of four indicator files and one other file; src/
\* absent, unreadable, or listed as runs of 1, 60 or 100 entries of one
\* kind of name
LangInit ==
  /\ lProject \in
       [files : SUBSET {"pyproject.toml", "Pipfile", "tsconfig.json",
                        "package.json", "README.md"},
        src : { [state |-> "absent", entries |-> <<>>],
                [state |-> "unreadable", entries |-> <<>>] }
              \cup
              { [state |-> "listed", entries |-> e] :
                  e \in UNION { [1..k ->
                         [name : { <<"a", ".", "p", "y">>,
                                   <<"a", ".", "t", "s">>,
                                   <<"a", ".", "t", "s", "x">>,
                                   <<"a", ".", "j", "s">>,
                                   <<"a", ".", "j", "s", "x">>,
                                   <<"a", ".", "m", "d">>,
                                   <<"p", "y">> },
                          n : {1, 60, 100}]] : k \in 0..MaxRuns } }]
  /\ lOut = "none"
  /\ MergeIdle
  /\ FsIdle
  /\ DiscIdle
  /\ CfgIdle
  /\ RouterIdle
  /\ ProjIdle
  /\ RenderIdle

\* one call of detectLanguage
DetectLanguage ==
  /\ lOut = "none"
  /\ lOut' = detectLanguage(lProject)
  /\ UNCHANGED <<lProject, mergeVars, fsVars, discVars, cfgVars, routerVars,
                 projVars, renderVars>>

LangSpec == LangInit /\ [][DetectLanguage]_vars

\* ------------------------------------------------------------------------
\* Claims about mergeInstructionFiles
\* ------------------------------------------------------------------------

\* C1 (merge preservation): every section of the existing text that starts
\* at a '## '/'### ' line whose trimmed heading is no trimmed heading of the
\* generated text stands in the merged text with its heading line and its
\* body lines, after the whole of the generated text.
C1_MergePreservation ==
  pc = "done" => CustomSectionsKept(existing, generated, merged)

\* a custom section with two body lines is merged under a generated heading
C1_Witness ==
  /\ pc = "done"
  /\ HeadingSet(generated) # {}
  /\ \E i \in CustomIdx(existing, generated) :
       Len(FlatSection(SplitLines(existing), i)) >= 3

\* C2 (merge no-op): when every heading line of the existing text is, after
\* trimming, a heading line of the generated text, the merged text is the
\* generated text, character for character, whatever the bodies are.
C2_MergeNoOp ==
  (pc = "done" /\ HeadingSet(existing) \subseteq HeadingSet(generated))
    => merged = generated

\* the existing text has a heading and differs from the generated text
C2_Witness ==
  /\ pc = "done"
  /\ HeadingSet(existing) # {}
  /\ HeadingSet(existing) \subseteq HeadingSet(generated)
  /\ existing # generated
  /\ Len(SplitLines(existing)) > Len(SplitLines(generated))

\* C3 (merge idempotence): merging a text with itself returns the text.
C3_MergeIdempotence ==
  (pc = "done" /\ existing = generated) => merged = generated

\* a text with a heading whose line ends in a blank is merged with itself
C3_Witness ==
  /\ pc = "done"
  /\ existing = generated
  /\ \E i \in HeadingIdx(SplitLines(generated)) :
       Trim(SplitLines(generated)[i]) # SplitLines(generated)[i]

\* C4 (section spans): the span of a custom '## ' section runs until the
\* next heading of equal-or-higher level, so the '### ' sub-sections that
\* follow it are captured with it: every line of the span, '### ' headings
\* and their bodies included, stands in the merged text after the generated
\* part, in the order of the existing text.
C4_SpanUntilEqualOrHigherLevel ==
  pc = "done" =>
    LET ls == SplitLines(existing)
    IN \A i \in CustomIdx(existing, generated) :
         StartsWith(ls[i], H2) =>
           InOrderFrom(LevelSpan(ls, i), 1, SplitLines(merged),
                       Len(SplitLines(generated)))

\* C5 (output shape): with at least one custom section the merged text is
\* the generated text, a blank line, the separator comment line, a blank
\* line, and the custom sections once each, in the order of the existing
\* text, with a blank line between consecutive sections.
C5_MergeOutputShape ==
  (pc = "done" /\ CustomIdx(existing, generated) # {}) =>
    merged = generated \o <<NL, NL>> \o SeparatorComment \o <<NL, NL>>
               \o Join(CustomSectionTexts(existing, generated), <<NL, NL>>)

\* two custom sections are appended
C5_Witness ==
  /\ pc = "done"
  /\ Cardinality(CustomIdx(existing, generated)) >= 2
  /\ HeadingSet(generated) # {}

\* ------------------------------------------------------------------------
\* Claims about the writers
\* ------------------------------------------------------------------------
FileUnchanged ==
  fileExists = lastCall.prevExists /\ fileContent = lastCall.prevContent

\* C6 (write-if-missing): the call returns 'skipped' and leaves the file as
\* it was exactly when the file existed and force was false; otherwise the
\* file holds the content passed, and the result is 'created' when the file
\* did not exist before and 'overwritten' when it did.
C6_WriteIfMissing ==
  lastCall.op = "writeFileIfMissing" =>
    LET kept == lastCall.prevExists /\ ~lastCall.force
    IN /\ (lastCall.result = "skipped" /\ FileUnchanged) <=> kept
       /\ ~kept =>
            /\ fileExists
            /\ fileContent = lastCall.content
            /\ lastCall.result =
                 (IF lastCall.prevExists THEN "overwritten" ELSE "created")

\* a forced call has overwritten a file that held other content
C6_Witness ==
  /\ lastCall.op = "writeFileIfMissing"
  /\ lastCall.prevExists
  /\ lastCall.force
  /\ lastCall.prevContent # lastCall.content
  /\ lastCall.result = "overwritten"

\* C7 (write-with-merge): after the call the file holds the content passed
\* when it did not exist before, and mergeInstructionFiles(previous
\* content, content) when it did; every custom section of the previous
\* file is still in the file.
C7_WriteWithMerge ==
  lastCall.op = "writeInstructionFileWithMerge" =>
    /\ fileExists
    /\ ~lastCall.prevExists => fileContent = lastCall.content
    /\ lastCall.prevExists =>
         /\ fileContent =
              mergeInstructionFiles(lastCall.prevContent, lastCall.content)
         /\ CustomSectionsKept(lastCall.prevContent, lastCall.content,
                               fileContent)

\* the call met a file with a custom section and content with a heading
C7_Witness ==
  /\ lastCall.op = "writeInstructionFileWithMerge"
  /\ lastCall.prevExists
  /\ CustomIdx(lastCall.prevContent, lastCall.content) # {}
  /\ HeadingSet(lastCall.content) # {}

\* C27 (headings are never lost across merged writes): over any sequence of
\* writeInstructionFileWithMerge calls on one file, with any generated
\* contents, every '## ' or '### ' heading line (compared after trimming)
\* that the file holds is still in the file after the next call, and so
\* after every later call.
C27_HeadingsNeverLost ==
  [][HeadingSet(fileContent) \subseteq HeadingSet(fileContent')]_vars

\* the second regeneration meets a file that already holds preserved custom
\* sections, and a heading of it that the new content lacks is kept again
C27_Witness ==
  /\ calls = 2
  /\ lastCall.prevExists
  /\ \E i \in 1..Len(SplitLines(lastCall.prevContent)) :
       SplitLines(lastCall.prevContent)[i] = SeparatorComment
  /\ HeadingSet(lastCall.content) # {}
  /\ \E h \in HeadingSet(lastCall.prevContent) :
       h \notin HeadingSet(lastCall.content) /\ h \in HeadingSet(fileContent)

\* C28 (re-merging is a fixed point): for every existing text e and
\* generated text g, merging the result of mergeInstructionFiles(e, g) with g
\* again returns that result byte for byte, with any number of custom
\* sections.
C28_RemergeFixedPoint ==
  pc = "done" => mergeInstructionFiles(merged, generated) = merged

\* ------------------------------------------------------------------------
\* Claims about discoverServers
\* ------------------------------------------------------------------------
Settled == dpc \in {"returned", "rejected"}

\* what discovery without the remote returns for the same tags
LocalOnlyResult ==
  SortServers(loadLocalServers(dTags, dTemplates))

RemoteFailures ==
  { "network-error", "abort", "non-2xx", "invalid-json", "no-servers-array",
    "malformed-entries" }

\* C8 (remote failure is never fatal): whatever way the remote request
\* fails (network error, abort, status outside 2xx, no JSON, JSON without a
\* servers array, malformed entries), discoverServers resolves, and with
\* the list that local-only discovery returns for the same tags.
C8_RemoteFailureNeverFatal ==
  (Settled /\ remoteOutcome \in RemoteFailures) =>
    (dpc = "returned" /\ result = LocalOnlyResult)

\* C9 (bounded remote timeout): the timeout covers the whole response, head
\* and body: while the call waits for the remote, the timer that aborts the
\* request is pending or has fired, so the wait ends within remoteTimeoutMs.
C9_BoundedRemoteTimeout ==
  dpc \in {"fetching", "readingBody"} => (timerArmed \/ aborted)

\* the names the templates of the requested tags hold
LocalNames ==
  UNION { NamesOf(dTemplates[dTags[i]]) : i \in 1..Len(dTags) }

\* C10 (first-wins, local over remote): the returned list holds no name
\* twice, and an entry whose name is in the local templates of the
\* requested tags is the local one (source 'built-in', local command), also
\* when the remote registry holds the name too.
C10_LocalOverRemote ==
  dpc = "returned" =>
    /\ \A i, j \in 1..Len(result) :
         NameKey(result[i]) = NameKey(result[j]) => i = j
    /\ LocalNames \subseteq NamesOf(result)
    /\ \A i \in 1..Len(result) :
         NameKey(result[i]) \in LocalNames =>
           (result[i].source = "built-in" /\ result[i].command = "local")

\* a name is local and remote, and a remote-only server is returned too
C10_Witness ==
  /\ dpc = "returned"
  /\ remoteOutcome = "ok"
  /\ LocalNames \cap NamesOf(remotePayload) # {}
  /\ \E i \in 1..Len(result) : result[i].source = "remote"

\* a registry URL that is not empty, from the option or the environment
UrlAvailable ==
  dOptions.remoteRegistryUrl = "url" \/ dOptions.envUrl = "url"

\* C22 (remote registry is contacted only on request): fetch is called only
\* when includeRemote is true and a non-empty registry URL is available
\* (option or FORGECRAFT_MCP_REGISTRY_URL); in every other case no fetch
\* happens and the call returns the local result.
C22_RemoteOnlyOnRequest ==
  /\ fetchCalled => (dOptions.includeRemote /\ UrlAvailable)
  /\ (Settled /\ ~(dOptions.includeRemote /\ UrlAvailable)) =>
       (~fetchCalled /\ dpc = "returned" /\ result = LocalOnlyResult)

\* remote discovery asked for, no URL in the option and none in the
\* environment: the local servers are returned and nothing was fetched
C22_Witness ==
  /\ dpc = "returned"
  /\ dOptions.includeRemote
  /\ dOptions.remoteRegistryUrl = "undefined"
  /\ dOptions.envUrl = ""
  /\ ~fetchCalled
  /\ Len(result) = 2

\* the tags of a server that are among the requested tags
MatchingTags(server) ==
  SeqElems(server.relevantTags) \cap SeqElems(dTags)

\* C23 (remote servers are filtered by the requested tags): a server of the
\* returned list that comes from the remote registry has at least one tag
\* among the requested tags.
C23_RemoteFilteredByTags ==
  dpc = "returned" =>
    \A i \in 1..Len(result) :
      result[i].source = "remote" => MatchingTags(result[i]) # {}

\* the registry answers with a server that shares a tag with the request
\* and one that does not; only the first is returned
C23_Witness ==
  /\ dpc = "returned"
  /\ remoteOutcome = "ok"
  /\ dTags = <<"UNIVERSAL">>
  /\ \E i \in 1..Len(remotePayload) :
       /\ remotePayload[i].name = "delta"
       /\ remotePayload[i].tags = <<"API">>
  /\ \E i \in 1..Len(result) : result[i].source = "remote"
  /\ \A i \in 1..Len(result) : result[i].name # "delta"

\* C25 (discovery result order): the returned list is sorted by the number
\* of a server's tags that match the requested tags, descending, and
\* servers with the same number are in alphabetical order of their names.
C25_OrderByMatchingTags ==
  dpc = "returned" =>
    \A i, j \in 1..Len(result) :
      i < j =>
        \/ Cardinality(MatchingTags(result[i]))
              > Cardinality(MatchingTags(result[j]))
        \/ /\ Cardinality(MatchingTags(result[i]))
                = Cardinality(MatchingTags(result[j]))
           /\ NameRank(NameKey(result[i])) <= NameRank(NameKey(result[j]))

\* ------------------------------------------------------------------------
\* Claims about configure_mcp
\* ------------------------------------------------------------------------
\* the elements of a sequence
Elems(q) == { q[i] : i \in 1..Len(q) }

\* the keys of an object
KeysOf(obj) == { obj[i].key : i \in 1..Len(obj) }

\* the value an object holds under a key it has
ValueAt(obj, k) == obj[CHOOSE i \in 1..Len(obj) : obj[i].key = k].val

\* C11: when configure_mcp is called with max_servers = n, the servers
\* configured by the call (written under mcpServers and counted as
\* "Servers configured") are at most n, whatever the discovered and the
\* custom servers are.
C11_MaxServersBound ==
  (cpc = "done" /\ cArgs.hasMax) => Len(cServers) <= cArgs.maxServers

\* core > recommended > optional, a missing tier counting as recommended
TierRank(rec) ==
  CASE rec.hasTier /\ rec.tier = "core" -> 0
    [] rec.hasTier /\ rec.tier = "optional" -> 2
    [] OTHER -> 1

\* where a recommendation stands in a list that holds it
PlaceIn(list, x) == CHOOSE i \in 1..Len(list) : list[i] = x

Truncated == cpc = "done" /\ cArgs.hasMax /\ Len(cRecs) > cArgs.maxServers

\* C12: when the discovered recommendations exceed max_servers, the kept
\* ones are max_servers of the discovered ones, no dropped one has a
\* strictly higher-priority tier than a kept one, and kept ones of the same
\* tier stand in their discovery order.
C12_TierPriorityTruncation ==
  Truncated =>
    /\ Len(cKept) = cArgs.maxServers
    /\ Elems(cKept) \subseteq Elems(cRecs)
    /\ \A i, j \in 1..Len(cKept) : i # j => cKept[i] # cKept[j]
    /\ \A d \in Elems(cRecs) \ Elems(cKept) : \A k \in Elems(cKept) :
         TierRank(d) >= TierRank(k)
    /\ \A i, j \in 1..Len(cKept) :
         (i < j /\ TierRank(cKept[i]) = TierRank(cKept[j]))
           => PlaceIn(cRecs, cKept[i]) < PlaceIn(cRecs, cKept[j])

\* a truncation that drops the first discovered server for two later ones
\* of one tier
C12_Witness ==
  /\ Truncated
  /\ cRecs[1] \notin Elems(cKept)
  /\ \E i, j \in 1..Len(cKept) :
       i < j /\ TierRank(cKept[i]) = TierRank(cKept[j])

\* out is list without its repeated elements, in the order of first
\* occurrence
IsUnionOf(out, list) ==
  /\ Elems(out) = Elems(list)
  /\ \A i, j \in 1..Len(out) :
       i < j => /\ out[i] # out[j]
                /\ \E a, b \in 1..Len(list) :
                     /\ a < b
                     /\ list[a] = out[i]
                     /\ list[b] = out[j]
                     /\ \A c \in 1..(b - 1) : list[c] # out[j]

\* C13: when settings.json exists and parses, the written file keeps every
\* other top-level key and every other key of permissions, has mcpServers
\* equal to the existing servers overlaid by the new ones, and has
\* permissions.allow equal to the existing rules followed by the new rules
\* without duplicates; when it does not parse, the written file is the new
\* settings and the call returns.
C13_SettingsMergePrecedence ==
  cpc = "done" =>
    LET old == cFile0.json
        new == cFile.json
    IN  /\ cFile.kind = "object"
        /\ cFile0.kind \in {"object", "null"} =>
             /\ \A e \in Elems(old.top) :
                  e.key \notin {"permissions", "mcpServers"}
                    => e \in Elems(new.top)
             /\ \A e \in Elems(old.perms) :
                  e.key # "allow" => e \in Elems(new.perms)
             /\ "mcpServers" \in KeysOf(new.top)
             /\ KeysOf(new.servers) = KeysOf(old.servers) \cup KeysOf(cServers)
             /\ Len(new.servers) = Cardinality(KeysOf(new.servers))
             /\ \A k \in KeysOf(new.servers) :
                  ValueAt(new.servers, k) =
                    IF k \in KeysOf(cServers)
                      THEN ValueAt(cServers, k).command
                      ELSE ValueAt(old.servers, k)
             /\ "permissions" \in KeysOf(new.top)
             /\ "allow" \in KeysOf(new.perms)
             /\ IsUnionOf(new.allow, old.allow \o cRules)
        /\ cFile0.kind = "unparseable" =>
             /\ KeysOf(new.top) =
                  {"mcpServers"} \cup
                  (IF Len(cRules) > 0 THEN {"permissions"} ELSE {})
             /\ new.allow = cRules
             /\ Len(new.servers) = Len(cServers)
             /\ \A i \in 1..Len(cServers) :
                  new.servers[i] = [key |-> cServers[i].key,
                                    val |-> cServers[i].val.command]

\* C29 (configure_mcp is idempotent): of two consecutive calls with the
\* same arguments and the same discovery result, the second leaves
\* .claude/settings.json as the first left it, for every value of
\* auto_approve_tools and whether or not the file existed before.
C29_ConfigureIdempotent ==
  [][cpc = "done" => cFile' = cFile]_vars

\* C30 (settings only grow under configure_mcp): where the settings.json of
\* the project parses, every server name under mcpServers and every rule in
\* permissions.allow that was in the file is in it after the calls, also
\* for servers the calls do not configure and with auto_approve_tools=false.
C30_SettingsOnlyGrow ==
  (cpc \in {"done", "again"} /\ cFile0.kind \in {"object", "null"}) =>
    /\ KeysOf(cFile0.json.servers) \subseteq KeysOf(cFile.json.servers)
    /\ Elems(cFile0.json.allow) \subseteq Elems(cFile.json.allow)

\* ------------------------------------------------------------------------
\* Claims about the router
\* ------------------------------------------------------------------------
\* the required parameters of an action, in the order they are named
RequiredParams(action) ==
  CASE action = "refresh" -> <<"project_dir">>
    [] action \in {"scaffold", "audit", "configure_mcp", "convert"} ->
         <<"tags", "project_dir">>
    [] action \in {"generate", "review", "get_reference"} -> <<"tags">>
    [] action \in {"add_hook", "add_module"} -> <<"name", "project_dir">>
    [] OTHER -> <<>>

\* the required parameters that are undefined or an empty array
MissingParams(args) ==
  LET req == RequiredParams(args.action)
  IN  { i \in 1..Len(req) : args[req[i]] \in {"undefined", "empty"} }

\* C14: a call whose action has a required parameter that is undefined or
\* an empty array rejects with "Missing required parameter '<param>' for
\* action '<action>'." naming the first such parameter, and no delegated
\* handler is invoked.
C14_RequiredParameters ==
  (rOut # NoOutcome /\ MissingParams(rArgs) # {}) =>
    LET req == RequiredParams(rArgs.action)
        first == CHOOSE i \in MissingParams(rArgs) :
                   \A j \in MissingParams(rArgs) : i <= j
    IN  /\ rOut.kind = "rejected"
        /\ rOut.handler = "none"
        /\ rOut.text = "Missing required parameter '" \o req[first]
                        \o "' for action '" \o rArgs.action \o "'."

\* configure_mcp called with tags = [] and no project_dir has been rejected
C14_Witness ==
  /\ rOut.kind = "rejected"
  /\ rArgs.action = "configure_mcp"
  /\ rArgs.tags = "empty"
  /\ rArgs.project_dir = "undefined"

\* ------------------------------------------------------------------------
\* Claims about the generate, scaffold and get_reference handlers
\* ------------------------------------------------------------------------
\* the tags of a list that are not UNIVERSAL, in order
OtherTags(tags) == SelectSeq(tags, LAMBDA t : t # "UNIVERSAL")

\* C15: the tag list a handler passes to composition contains UNIVERSAL
\* exactly once, whatever list the caller supplied.
C15_UniversalExactlyOnce ==
  ppc = "returned" =>
    Cardinality({ i \in 1..Len(pTags) : pTags[i] = "UNIVERSAL" }) = 1

\* C16: the tag list a handler passes to composition has UNIVERSAL first,
\* followed by the caller's other tags in the order they were supplied.
C16_UniversalFirst ==
  ppc = "returned" =>
    /\ Head(pTags) = "UNIVERSAL"
    /\ OtherTags(Tail(pTags)) = OtherTags(pCall.tags)

\* C17: a generate or scaffold call that raises has written none of its
\* files: every file of the project directory is as it was before the call.
C17_NoPartialWrites ==
  (ppc = "rejected" /\ pCall.handler \in {"generate", "scaffold"}) =>
    /\ pWritten \cap FilePaths = {}
    /\ \A p \in FilePaths : disk[p] = disk0[p]

\* C18: a scaffold call with dry_run = true creates, overwrites and changes
\* no file or directory of the project directory, and returns unless the
\* templates failed to load or compose.
C18_DryRunWritesNothing ==
  (pCall.handler = "scaffold" /\ pCall.dryRun /\ ppc # "start") =>
    /\ disk = disk0
    /\ pWritten = {}
    /\ filesCreated = <<>>
    /\ filesSkipped = <<>>

\* a dry run over a directory without src and with force set has returned
C18_Witness ==
  /\ pCall.handler = "scaffold"
  /\ pCall.dryRun
  /\ pCall.force
  /\ ppc = "returned"
  /\ disk0["src"].kind = "none"
  /\ disk0["Status.md"].kind = "file"

\* C19: after a scaffold call with force = false, every file that existed
\* before the call is unchanged, and every such file scaffold generates is
\* listed under Skipped and not under Created.
C19_ScaffoldSkipsExisting ==
  (pCall.handler = "scaffold" /\ ~pCall.force /\ ~pCall.dryRun
     /\ ppc = "returned") =>
    \A p \in FilePaths :
      disk0[p].kind = "file" =>
        /\ disk[p] = disk0[p]
        /\ (\E i \in 1..Len(scaffoldSteps(pCall.targets)) :
              scaffoldSteps(pCall.targets)[i].path = p)
             => /\ \E i \in 1..Len(filesSkipped) : filesSkipped[i] = p
                /\ \A i \in 1..Len(filesCreated) : filesCreated[i] # p

\* ------------------------------------------------------------------------
\* Claims about renderTemplate
\* ------------------------------------------------------------------------
\* what each placeholder of the templates asks for, read off its text: the
\* context field and the default
Asked(body) ==
  LET aB == <<"a", "B">>
      ask(f, hasDefault) ==
        [field |-> f, hasDefault |-> hasDefault, default |-> <<"d">>]
  IN  CASE body \in {aB, <<" ", "a", "B", " ">>, <<"a", "_", "b">>} ->
             ask(aB, FALSE)
        [] body = <<"c">> -> ask(<<"c">>, FALSE)
        [] Head(body) = "c" -> ask(<<"c">>, TRUE)
        [] Head(body) = "e" -> ask(<<"e", "F">>, TRUE)
        [] OTHER -> ask(aB, TRUE)

\* the text a piece of a template stands for under a context
Expected(t, context) ==
  IF t.kind = "text" THEN t.body
  ELSE IF Asked(t.body).field \in DOMAIN context
    THEN context[Asked(t.body).field]
  ELSE IF Asked(t.body).hasDefault THEN Asked(t.body).default
  ELSE <<"{", "{">> \o t.body \o <<"}", "}">>

\* C20: renderTemplate replaces every placeholder by the context value when
\* its field resolves (camelCase or snake_case spelling, white space inside
\* the braces aside), otherwise by its default when it has one, otherwise
\* leaves the placeholder text as it is; text outside placeholders is kept.
C20_PlaceholderResolution ==
  (tpc = "done" /\ Len(tTemplate) <= MaxTokens
     /\ \A i \in 1..Len(tTemplate) : tTemplate[i].kind \in {"text", "var"}) =>
    \E cut \in [1..(Len(tTemplate) + 1) -> 0..Len(tOut)] :
      /\ cut[1] = 0
      /\ cut[Len(tTemplate) + 1] = Len(tOut)
      /\ \A i \in 1..Len(tTemplate) :
           /\ cut[i] <= cut[i + 1]
           /\ SubSeq(tOut, cut[i] + 1, cut[i + 1])
                = Expected(tTemplate[i], tContext)

\* a snake_case placeholder with a default whose field has a value, next to
\* a placeholder that stays
C20_Witness ==
  /\ tpc = "done"
  /\ Len(tTemplate) = 2
  /\ Head(tTemplate[1].body) = " "
  /\ Len(tTemplate[1].body) > 4
  /\ tTemplate[2].body = <<"c">>
  /\ DOMAIN tContext = {<<"a", "B">>, <<"l">>}
  /\ tOut = <<"v", "{", "{", "c", "}", "}">>

\* a block opening at j that is still open at i
Encloses(j, i) ==
  /\ j < i
  /\ tTemplate[j].kind = "if"
  /\ \A k \in (j + 1)..i :
       Cardinality({ m \in (j + 1)..k : tTemplate[m].kind = "endif" })
         <= Cardinality({ m \in (j + 1)..k : tTemplate[m].kind = "if" })

\* a piece of text or a placeholder all of whose blocks have a predicate
\* that is true: language_is_typescript under a typescript context,
\* language_is_python under a python context
Kept(i) ==
  /\ tTemplate[i].kind \in {"text", "var"}
  /\ \A j \in 1..Len(tTemplate) :
       Encloses(j, i) =>
         \/ tTemplate[j].body = <<"l", "_", "t">> /\ tContext[<<"l">>] = <<"t">>
         \/ tTemplate[j].body = <<"l", "_", "p">> /\ tContext[<<"l">>] = <<"p">>

RECURSIVE KeptFrom(_)
KeptFrom(i) ==
  IF i > Len(tTemplate) THEN <<>>
  ELSE (IF Kept(i) THEN Expected(tTemplate[i], tContext) ELSE <<>>)
       \o KeptFrom(i + 1)

\* C21: in one document every conditional block whose predicate is true
\* leaves its inner content without the delimiters, every block whose
\* predicate is false or unknown leaves nothing, each block on its own,
\* whether the blocks are adjacent, nested or span lines; no {{#if}} or
\* {{/if}} is left in the output.
C21_ConditionalExclusivity ==
  (tpc = "done" /\ \E i \in 1..Len(tTemplate) : tTemplate[i].kind = "if") =>
    /\ tOut = KeptFrom(1)
    /\ \A i \in 1..(Len(tOut) - 2) :
         ~(tOut[i] = "{" /\ tOut[i + 1] = "{" /\ tOut[i + 2] \in {"#", "/"})

\* a true block that holds a line of text and a false block, under python;
\* the inner block goes and the text of the outer block stays
C21_Witness ==
  /\ tpc = "done"
  /\ tContext[<<"l">>] = <<"p">>
  /\ Len(tTemplate) = 5
  /\ tTemplate[1].body = <<"l", "_", "p">>
  /\ tTemplate[2].kind = "if"
  /\ tTemplate[2].body = <<"l", "_", "t">>
  /\ tTemplate[3].kind = "endif"
  /\ tTemplate[4].kind = "text"
  /\ tTemplate[5].kind = "endif"
  /\ tOut = <<"x", NL>>

\* ------------------------------------------------------------------------
\* Claims about the resource dispatch of the router
\* ------------------------------------------------------------------------
\* a returned text that starts with "Error: Invalid resource", and no handler
InvalidResourceResult ==
  /\ rOut.kind = "returned"
  /\ rOut.handler = "none"
  /\ rOut.text \in
       { "Error: Invalid resource" \o " '" \o rArgs.resource \o "' for " \o rest :
           rest \in { "list action. Use: tags, hooks, or skills.",
                      "get_reference action. Use: nfr or design_patterns." } }

\* C26 as claimed (resource dispatch in the router): 'list' with no resource
\* lists tags, and 'get_reference' with tags and no resource returns design
\* patterns; a resource that is not valid for the action ('list' accepts
\* tags, hooks, skills; 'get_reference' accepts nfr, design_patterns) yields
\* a text result starting with 'Error: Invalid resource' instead of a throw,
\* and no list or reference handler is invoked.
C26_ResourceDispatch ==
  rOut.kind # "none" =>
    /\ (rArgs.action = "list" /\ rArgs.resource = "undefined") =>
         rOut = [kind |-> "delegated", handler |-> "listTagsHandler",
                 text |-> ""]
    /\ (rArgs.action = "get_reference" /\ rArgs.tags = "given"
          /\ rArgs.resource = "undefined") =>
         rOut = [kind |-> "delegated", handler |-> "getDesignReferenceHandler",
                 text |-> ""]
    /\ (rArgs.action = "list"
          /\ rArgs.resource \notin {"undefined", "tags", "hooks", "skills"}) =>
         InvalidResourceResult
    /\ (rArgs.action = "get_reference"
          /\ rArgs.resource \notin {"undefined", "nfr", "design_patterns"}) =>
         InvalidResourceResult

\* C26 as amended: the same, where an invalid resource of 'get_reference'
\* yields the text result when tags are given (without tags the call throws
\* for the missing parameter before the resource is looked at).
C26_ResourceDispatchWithTags ==
  rOut.kind # "none" =>
    /\ (rArgs.action = "list" /\ rArgs.resource = "undefined") =>
         rOut = [kind |-> "delegated", handler |-> "listTagsHandler",
                 text |-> ""]
    /\ (rArgs.action = "get_reference" /\ rArgs.tags = "given"
          /\ rArgs.resource = "undefined") =>
         rOut = [kind |-> "delegated", handler |-> "getDesignReferenceHandler",
                 text |-> ""]
    /\ (rArgs.action = "list"
          /\ rArgs.resource \notin {"undefined", "tags", "hooks", "skills"}) =>
         InvalidResourceResult
    /\ (rArgs.action = "get_reference" /\ rArgs.tags = "given"
          /\ rArgs.resource \notin {"undefined", "nfr", "design_patterns"}) =>
         InvalidResourceResult
    /\ (rArgs.action = "get_reference" /\ rArgs.tags # "given") =>
         rOut.kind = "rejected"

\* get_reference with tags and the resource 'tags', which only list accepts
C26_Witness ==
  /\ rArgs.action = "get_reference"
  /\ rArgs.tags = "given"
  /\ rArgs.resource = "tags"
  /\ rOut.kind = "returned"
  /\ rOut.text = "Error: Invalid resource 'tags' for get_reference action. "
                   \o "Use: nfr or design_patterns."

\* ------------------------------------------------------------------------
\* Claims about detectLanguage
\* ------------------------------------------------------------------------
\* the entries of src/ at the positions first..last of the listing that
\* belong to run r
RunShare(r, last) ==
  LET runs == lProject.src.entries
      RECURSIVE before(_)
      before(k) == IF k = 0 THEN 0 ELSE runs[k].n + before(k - 1)
      room == last - before(r - 1)
  IN  IF room <= 0 THEN 0 ELSE IF runs[r].n <= room THEN runs[r].n ELSE room

\* how many of the first 100 entries of src/ have a name of these kinds
Among100(kinds) ==
  LET runs == lProject.src.entries
      RECURSIVE sum(_)
      sum(r) ==
        IF r = 0 THEN 0
        ELSE (IF runs[r].name \in kinds THEN RunShare(r, 100) ELSE 0)
             + sum(r - 1)
  IN  sum(Len(runs))

\* C24 (language detection decision): detectLanguage returns 'python'
\* exactly when a Python indicator file is present and either no TypeScript
\* indicator is present, or both are present and among the first 100
\* entries of src/ the .py files strictly outnumber the .ts/.tsx/.js/.jsx
\* files; in every other case it returns 'typescript'; it never throws.
C24_LanguageDecision ==
  lOut # "none" =>
    LET python == {"pyproject.toml", "Pipfile"} \cap lProject.files # {}
        typescript == {"tsconfig.json", "package.json"} \cap lProject.files # {}
        pyMajority ==
          /\ lProject.src.state = "listed"
          /\ Among100({ <<"a", ".", "p", "y">> })
               > Among100({ <<"a", ".", "t", "s">>, <<"a", ".", "t", "s", "x">>,
                            <<"a", ".", "j", "s">>,
                            <<"a", ".", "j", "s", "x">> })
    IN  /\ lOut \in {"python", "typescript"}
        /\ lOut = "python" <=> (python /\ (~typescript \/ pyMajority))

\* both indicators, and a src/ that lists 60 .ts files and then 100 .py
\* files: the .py files are more, but not among the first 100 entries
C24_Witness ==
  /\ lOut = "typescript"
  /\ {"Pipfile", "package.json"} \subseteq lProject.files
  /\ lProject.src.state = "listed"
  /\ Len(lProject.src.entries) = 2
  /\ lProject.src.entries[1] = [name |-> <<"a", ".", "t", "s">>, n |-> 60]
  /\ lProject.src.entries[2] = [name |-> <<"a", ".", "p", "y">>, n |-> 100]

====
